---------------------------- MODULE Spec2Model ----------------------------
(***************************************************************************)
(* A model of the synchronisation commands of sparcur's command line       *)
(* (src/sparcur/cli.py): clone, pull, refresh, fetch, find, status, stash, *)
(* fix duplicates and the path selection they share.                       *)
(*                                                                         *)
(* Each command is a specification of its own (SpecClone, SpecRefresh,     *)
(* ...) over the variables of its part of the state; the variables of the  *)
(* other parts stay at their idle values.                                  *)
(*                                                                         *)
(* The classes of sparcur.paths and sparcur.backends (the cache, the       *)
(* remote, PathMeta) are not part of the sources at hand: what the         *)
(* commands call on them is modelled from the specification and marked     *)
(* so in MODEL_MAP.json.                                                   *)
(***************************************************************************)
EXTENDS Integers, Sequences, FiniteSets, TLC

\* python's None where the value is otherwise a number (the numbers of the model
\* are never negative) and where it is otherwise a string
None == -1

NoneStr == "None"

VARIABLES
    pc,             \* position in the command that runs
    options,        \* the command line options (self.options)
    exit_status,    \* the status the process exited with (None while running)
    printed,        \* what the operator was told last
    \* clone
    project_id,     \* self.options.project_id (None when not given)
    secrets,        \* the projects an api secret is configured for
    existing_root,  \* self.cwd.find_cache_root(): None or the enclosing project
    cwd_entries,    \* number of entries of the current directory
    anchor,         \* the local `anchor` of clone: "unbound" until dropAnchor returns
    made,           \* the directories clone has created
    pull_run,       \* whether self.pull() was started
    \* the local tree and the selection of paths
    tree,           \* the local tree: path -> entry
    tree0,          \* the local tree when the command started
    paths,          \* the <path>... arguments (self.paths)
    selected,       \* the paths the command selected, in order
    \* fetch
    pending,        \* positions of `selected` whose fetch has not run yet
    transfers,      \* the paths a download was started for
    skipped,        \* the paths a fetch skipped
    flagged,        \* the paths reported as truncated or corrupted
    \* refresh
    remote,         \* the remote store: id -> what it reports for that object
    denied,         \* the paths the filesystem refuses to rename (EACCES)
    run,            \* the number of refresh commands started
    drs,            \* the directories of one refresh, in request order
    todo,           \* the files of one refresh not refreshed yet
    moved,          \* [old, new] of every directory found moved
    parent_moved,   \* the directories whose update met FileNotFoundError
    logged,         \* the directories whose update met ENOTEMPTY (log.error)
    applied,        \* the cache updates of one refresh, in the order applied
    renames_log,    \* the lines of local_data_dir/renames.log
    log0,           \* renames.log when the command started
    last,           \* what the previous refresh was given and how it ended
    \* status, find
    different,      \* the files status reports as different from their record
    found,          \* the paths find is left with after its size filter
    n_skipped,      \* find's count of placeholders filtered out, None if unbound
    detected,       \* the files find logged as truncated transfers
    \* fix duplicates
    dupes,          \* remote id -> the paths that share it, in ranked order
    deduped,        \* the path dedupe names for each group, group by group
    to_remove,      \* the paths of the groups that dedupe did not name
    \* stash
    stash,          \* what lies below the stash base: stash path -> entry
    n_stashes,      \* the number of stash commands run (the clock of the stamps)
    stashed,        \* the stash entries of the last stash, in the order made
    at_stash,       \* the project tree as it was at the last stash
    anchor_name,    \* the name of the project directory (self.anchor.name)
    restored,       \* the copies of the last restore: <<path, stash entry copied>>
    \* pull
    directories,    \* the <directory>... arguments, sorted once pull has begun
    existing_d,     \* remote id -> the path that held it when pull began
    n_pulled,       \* the number of directories the loop of pull has gone through
    gone,           \* the directories whose refresh returned None (removed)
    bootstrapped,   \* the directories pull has bootstrapped, in order
    caches,         \* the local `caches` of pull: "unbound" or the last bootstrap's
    maybe_removed   \* the paths pull refreshed as possibly removed

sharedVars == <<pc, options, exit_status, printed>>

cloneVars == <<project_id, secrets, existing_root, cwd_entries, anchor, made, pull_run>>

treeVars == <<tree, tree0, paths>>

selectVars == <<selected>>

fetchVars == <<pending, transfers, skipped, flagged>>

refreshVars == <<remote, denied, run, drs, todo, moved, parent_moved, logged, applied,
                 renames_log, log0, last>>

findVars == <<different, found, n_skipped, detected>>

dupVars == <<dupes, deduped, to_remove>>

stashVars == <<stash, n_stashes, stashed, at_stash, anchor_name, restored>>

pullVars == <<directories, existing_d, n_pulled, gone, bootstrapped, caches, maybe_removed>>

vars == <<sharedVars, cloneVars, treeVars, selectVars, fetchVars, refreshVars, findVars,
          dupVars, stashVars, pullVars>>

outsideClone == <<options, treeVars, selectVars, fetchVars, refreshVars, findVars, dupVars,
                  stashVars, pullVars>>

outsideSelect == <<cloneVars, treeVars, fetchVars, refreshVars, findVars, dupVars, stashVars,
                   pullVars>>

outsideFetch == <<refreshVars, findVars, dupVars, stashVars, pullVars>>

outsideRefresh == <<cloneVars, selectVars, fetchVars, findVars, dupVars, stashVars, pullVars>>

(***************************************************************************)
(* Generic helpers on sequences.                                           *)
(***************************************************************************)
Range(s) == {s[i] : i \in DOMAIN s}

IsPrefix(p, q) == Len(p) <= Len(q) /\ SubSeq(q, 1, Len(p)) = p

IsStrictPrefix(p, q) == Len(p) < Len(q) /\ SubSeq(q, 1, Len(p)) = p

(***************************************************************************)
(* Paths are sequences of names, relative to the current directory (the    *)
(* project root); names are numbers, ordered as the names they stand for.  *)
(* A local tree maps each existing path to its entry:                      *)
(*   kind   "dir", "file" (content present) or "link" (the broken symlink  *)
(*          that stands for a remote file that was not fetched),           *)
(*   cache  the cached metadata record (path.cache.meta), NoCache if none, *)
(*   size, checksum   of the local content of a file (path.meta).          *)
(***************************************************************************)
RECURSIVE PathLess(_, _)
\* p sorts before q: the order of the path strings
PathLess(p, q) ==
    IF p = <<>> THEN q # <<>>
    ELSE IF q = <<>> THEN FALSE
    ELSE IF Head(p) # Head(q) THEN Head(p) < Head(q)
    ELSE PathLess(Tail(p), Tail(q))

RECURSIVE SortPaths(_)
\* the paths of a finite set in increasing order
SortPaths(S) ==
    IF S = {} THEN <<>>
    ELSE LET least == CHOOSE p \in S : \A q \in S \ {p} : PathLess(p, q)
         IN <<least>> \o SortPaths(S \ {least})

Exists(t, p) == p \in DOMAIN t

is_dir(t, p) == Exists(t, p) /\ t[p].kind = "dir"

is_broken_symlink(t, p) == Exists(t, p) /\ t[p].kind = "link"

is_file(t, p) == Exists(t, p) /\ t[p].kind = "file"

\* path.children: the entries of a directory (nothing for any other path),
\* listed in the order of their names
children(t, p) ==
    IF is_dir(t, p)
    THEN SortPaths({q \in DOMAIN t : Len(q) = Len(p) + 1 /\ IsPrefix(p, q)})
    ELSE <<>>

\* path.rchildren: everything below a path, parents before their entries
rchildren(t, p) ==
    IF is_dir(t, p)
    THEN SortPaths({q \in DOMAIN t : IsStrictPrefix(p, q)})
    ELSE <<>>

\* path.parents: the proper ancestors of a path
parents(p) == {SubSeq(p, 1, n) : n \in 0..(Len(p) - 1)}

RECURSIVE NodePath(_, _, _)
\* the path of node n, in a tree given by each node's parent and name
NodePath(par, nm, n) ==
    IF n = 0 THEN <<>> ELSE Append(NodePath(par, nm, par[n]), nm[n])

\* the parent functions of the trees with nodes 1..n under the root 0
ParentFunctions(n) == {par \in [1..n -> 0..(n - 1)] : \A i \in 1..n : par[i] < i}

\* siblings carry different names
NamesDistinct(par, nm) ==
    \A i, j \in DOMAIN par : (i # j /\ par[i] = par[j]) => nm[i] # nm[j]

(***************************************************************************)
(* ------------------------------ clone ---------------------------------- *)
(* Main.clone, cli.py 483-521.  The state is the command line, the facts   *)
(* of the environment the command reads, and what the command has done.    *)
(***************************************************************************)
Projects == {"N:organization:1", "N:organization:2"}

\* the largest number of entries the current directory holds
MaxCwdEntries == 2

\* an uncaught python exception ends the interpreter with status 1
UncaughtStatus == 1

CloneStart ==
    /\ pc = "start"
    /\ project_id \in Projects \cup {NoneStr}
    /\ secrets \in SUBSET Projects
    /\ existing_root \in {NoneStr, "root"}
    /\ cwd_entries \in 0..MaxCwdEntries
    /\ anchor = "unbound"
    /\ made = {}
    /\ pull_run = FALSE
    /\ exit_status = None
    /\ printed = NoneStr
    /\ options = None

CloneIdle ==
    /\ project_id = NoneStr
    /\ secrets = {}
    /\ existing_root = NoneStr
    /\ cwd_entries = 0
    /\ anchor = "unbound"
    /\ made = {}
    /\ pull_run = FALSE

\* sys.exit(status) after print(message)
CloneExit(message, status) ==
    /\ pc' = "exit"
    /\ printed' = message
    /\ exit_status' = status

\* an exception nothing catches: traceback, status 1
CloneRaise(exception) == CloneExit(exception, UncaughtStatus)

\* cli.py 484-487
CloneProjectId ==
    /\ pc = "start"
    /\ IF project_id = NoneStr
       THEN CloneExit("no remote project id listed", 4)
       ELSE /\ pc' = "init"
            /\ UNCHANGED <<printed, exit_status>>
    /\ UNCHANGED outsideClone
    /\ UNCHANGED <<project_id, secrets, existing_root, cwd_entries, anchor,
                   made, pull_run>>

\* the remote's init fails without a secret and leaves the missing secret unreported
CloneRemoteInit_Unchecked ==
    /\ pc = "init"
    /\ pc' = "find_root"
    /\ UNCHANGED <<printed, exit_status>>
    /\ UNCHANGED outsideClone
    /\ UNCHANGED <<project_id, secrets, existing_root, cwd_entries, anchor,
                   made, pull_run>>

\* cli.py 489-494: BlackfynnRemote.init raises MissingSecretError when no
\* secret is configured for the project
CloneRemoteInit ==
    /\ pc = "init"
    /\ IF project_id \notin secrets
       THEN CloneExit("missing api secret entry", 11)
       ELSE /\ pc' = "find_root"
            /\ UNCHANGED <<printed, exit_status>>
    /\ UNCHANGED outsideClone
    /\ UNCHANGED <<project_id, secrets, existing_root, cwd_entries, anchor,
                   made, pull_run>>

\* cli.py 496-501: the message is built from `root`, a name clone never
\* binds, so building it raises NameError before print and sys.exit(3)
CloneFindRoot ==
    /\ pc = "find_root"
    /\ IF existing_root # NoneStr
       THEN CloneRaise("NameError: name 'root' is not defined")
       ELSE /\ pc' = "drop"
            /\ UNCHANGED <<printed, exit_status>>
    /\ UNCHANGED outsideClone
    /\ UNCHANGED <<project_id, secrets, existing_root, cwd_entries, anchor,
                   made, pull_run>>

\* cli.py 503-511: dropAnchor raises DirectoryNotEmptyError on a directory
\* that holds entries; the handler's message reads `anchor`, which the failed
\* assignment left unbound: UnboundLocalError, raised inside the handler, is
\* not caught by the BaseException clause of the same try.
\* Any other failure of dropAnchor is logged and exits with 11111.
CloneDropAnchor ==
    /\ pc = "drop"
    /\ \/ /\ cwd_entries > 0
          /\ CloneRaise("UnboundLocalError: local variable 'anchor' referenced before assignment")
          /\ UNCHANGED anchor
       \/ /\ cwd_entries = 0
          /\ anchor' = "cwd"
          /\ pc' = "mkdir"
          /\ UNCHANGED <<printed, exit_status>>
       \/ /\ cwd_entries = 0
          /\ CloneExit("log.exception", 11111)
          /\ UNCHANGED anchor
    /\ UNCHANGED outsideClone
    /\ UNCHANGED <<project_id, secrets, existing_root, cwd_entries, made, pull_run>>

\* cli.py 513-515, one mkdir at a time in the order of the code
CloneMkdir ==
    /\ pc = "mkdir"
    /\ LET next == IF "local_data_dir" \notin made THEN "local_data_dir"
                   ELSE IF "local_objects_dir" \notin made THEN "local_objects_dir"
                   ELSE "trash"
       IN /\ made' = made \cup {next}
          /\ pc' = IF next = "trash" THEN "pull" ELSE "mkdir"
    /\ UNCHANGED outsideClone
    /\ UNCHANGED <<project_id, secrets, existing_root, cwd_entries, anchor,
                   pull_run, exit_status, printed>>

\* cli.py 517-521
ClonePull ==
    /\ pc = "pull"
    /\ pull_run' = TRUE
    /\ pc' = "done"
    /\ exit_status' = 0
    /\ UNCHANGED outsideClone
    /\ UNCHANGED <<project_id, secrets, existing_root, cwd_entries, anchor,
                   made, printed>>

NextClone ==
    \/ CloneProjectId
    \/ CloneRemoteInit
    \/ CloneFindRoot
    \/ CloneDropAnchor
    \/ CloneMkdir
    \/ ClonePull

\* what clone has changed on the filesystem
CloneMutated == anchor # "unbound" \/ made # {} \/ pull_run

(***************************************************************************)
(* C1: clone into a directory that is not empty reports the fatal          *)
(* directory-not-empty error, exits with status 2 and changes nothing on   *)
(* the filesystem.                                                         *)
(***************************************************************************)
C1_CloneNotEmptyExits2 ==
    (pc = "exit" /\ project_id \in secrets /\ existing_root = NoneStr /\ cwd_entries > 0)
        => /\ exit_status = 2
           /\ printed = "fatal: destination path already exists and is not an empty directory"
           /\ ~CloneMutated

(***************************************************************************)
(* C2: clone of a project without a configured credential reports the      *)
(* missing credential and exits with status 11 before an anchor is         *)
(* dropped, a directory is created or pull is started.                     *)
(***************************************************************************)
C2_CloneMissingCredential ==
    (project_id # NoneStr /\ project_id \notin secrets)
        => /\ ~CloneMutated
           /\ pc \in {"start", "init", "exit"}
           /\ pc = "exit" => (exit_status = 11 /\ printed = "missing api secret entry")

C2_Witness ==
    /\ pc = "exit"
    /\ project_id # NoneStr
    /\ project_id \notin secrets
    /\ exit_status = 11

(***************************************************************************)
(* C3: clone from inside an existing project reports 'fatal: already in    *)
(* project', exits with status 3 and drops no anchor.                      *)
(***************************************************************************)
C3_CloneInsideProjectExits3 ==
    (pc = "exit" /\ project_id \in secrets /\ existing_root # NoneStr)
        => /\ exit_status = 3
           /\ printed = "fatal: already in project"
           /\ ~CloneMutated

(***************************************************************************)
(* ------------------------- path selection ------------------------------ *)
(* Main._paths and Main._build_paths, cli.py 416-481.                      *)
(***************************************************************************)
\* the number of entries of the local tree below its root
MaxNodes == 3

\* the names an entry may carry
MaxNames == 2

\* the largest --level given
MaxLevel == 1

\* the largest number of <path>... arguments
MaxPaths == 1

Names == 1..MaxNames

TreeIdle == tree = None /\ tree0 = None /\ paths = None

SelectIdle == selected = None

\* the options a command reads, at the values docopt gives them when the
\* command line names none
DefaultOptions ==
    [level |-> None, empty |-> FALSE, only_no_file_id |-> FALSE,
     limit |-> 2, pretend |-> FALSE, fetch |-> FALSE, exists |-> FALSE,
     debug |-> FALSE, overwrite |-> FALSE, refresh |-> FALSE, name |-> <<>>]

\* a --pretend that is not looked at
pretend_ignored(o) == FALSE

\* self.options.pretend, cli.py 120: the command is to list, not to act
pretend(o) == o.pretend

\* a cached metadata record (PathMeta)
Meta(id, file_id, size, checksum, updated) ==
    [id |-> id, file_id |-> file_id, size |-> size, checksum |-> checksum,
     updated |-> updated]

\* a directory with its cached record
DirEntry(id) ==
    [kind |-> "dir", cache |-> Meta(id, None, None, NoneStr, 0), size |-> None,
     checksum |-> NoneStr]

\* the placeholder of a remote file that was not fetched
LinkEntry(id, file_id, size) ==
    [kind |-> "link", cache |-> Meta(id, file_id, size, NoneStr, 0), size |-> None,
     checksum |-> NoneStr]

\* the trees with nodes 1..n: node i is a directory or a placeholder, named
\* nm[i] in its parent par[i]; file_id fid[i] is set for some placeholders
TreeOf(par, nm, kd, fid) ==
    LET n == Cardinality(DOMAIN par)
        node(p) == CHOOSE i \in 1..n : NodePath(par, nm, i) = p
    IN [p \in {NodePath(par, nm, i) : i \in 0..n} |->
          IF p = <<>> THEN DirEntry(0)
          ELSE IF kd[node(p)] = "dir" THEN DirEntry(node(p))
          ELSE LinkEntry(node(p), fid[node(p)], None)]

Trees(n) ==
    {TreeOf(par, nm, kd, fid) :
        <<par, nm, kd, fid>> \in
            {x \in ParentFunctions(n) \X [1..n -> Names] \X [1..n -> {"dir", "link"}]
                                      \X [1..n -> {None, 1}] :
                /\ NamesDistinct(x[1], x[2])
                /\ \A i \in 1..n : x[1][i] # 0 => x[3][x[1][i]] = "dir"
                /\ \A i \in 1..n : x[3][i] = "dir" => x[4][i] = None}}

\* the lists of up to n different paths of a tree
PathArguments(t, n) ==
    {s \in UNION {[1..k -> DOMAIN t] : k \in 0..n} :
        \A i, j \in DOMAIN s : i # j => s[i] # s[j]}

SelectStart ==
    /\ pc = "select"
    /\ tree \in Trees(MaxNodes)
    /\ tree0 = tree
    /\ paths \in PathArguments(tree, MaxPaths)
    /\ options \in {[DefaultOptions EXCEPT !.level = l, !.empty = e,
                                           !.only_no_file_id = z] :
                        l \in {None} \cup 0..MaxLevel, e \in BOOLEAN, z \in BOOLEAN}
    /\ selected = <<>>
    /\ exit_status = None
    /\ printed = NoneStr

RECURSIVE inner(_, _, _, _)
RECURSIVE inner_path(_, _, _, _)

\* no_file_id: the test of --only-no-file-id, cli.py 439-440 and 460-461
no_file_id(t, p) == is_broken_symlink(t, p) /\ t[p].cache.file_id = None

\* the recursion below one path of the loop, cli.py 457-467
inner_below(t, o, path, level) ==
    IF o.level = None
    THEN IF o.only_no_file_id
         THEN SelectSeq(rchildren(t, path), LAMBDA rc : no_file_id(t, rc))
         ELSE rchildren(t, path)
    ELSE IF level <= o.level
    THEN inner(t, o, children(t, path), level + 1)
    ELSE <<>>

\* one pass of the loop body, cli.py 438-467: what the path itself yields,
\* then (unless the body ended in continue) what lies below it
inner_path(t, o, path, level) ==
    IF o.only_no_file_id
    THEN IF no_file_id(t, path)
         THEN <<path>>
         ELSE inner_below(t, o, path, level)
    ELSE IF o.empty
    THEN IF is_dir(t, path)
         THEN (IF children(t, path) = <<>> THEN <<path>> ELSE <<>>)
                  \o inner_below(t, o, path, level)
         ELSE <<>>
    ELSE <<path>> \o inner_below(t, o, path, level)

\* inner of _build_paths, cli.py 435-467: depth first over `ps`
inner(t, o, ps, level) ==
    IF ps = <<>> THEN <<>>
    ELSE inner_path(t, o, Head(ps), level) \o inner(t, o, Tail(ps), level)

\* cli.py 434-469
build_paths(t, o, ps) == inner(t, o, ps, 0)

\* Main._paths, cli.py 416-432, without --only-meta: the current directory
\* when no path is given
all_paths(t, o, ps) == build_paths(t, o, IF ps = <<>> THEN <<<<>>>> ELSE ps)

\* Main._dirs, cli.py 471-475
dirs_of(t, o, ps) == SelectSeq(all_paths(t, o, ps), LAMBDA p : is_dir(t, p))

\* Main._not_dirs, cli.py 477-481
not_dirs_of(t, o, ps) == SelectSeq(all_paths(t, o, ps), LAMBDA p : ~is_dir(t, p))

\* a command that walks self._paths
Select ==
    /\ pc = "select"
    /\ selected' = all_paths(tree, options, paths)
    /\ pc' = "done"
    /\ UNCHANGED <<options, exit_status, printed, outsideSelect>>

NextSelect == Select

\* the paths a selection starts from
StartingPaths == IF paths = <<>> THEN {<<>>} ELSE Range(paths)

\* how far path p lies below the nearest starting path above it
DepthBelowStart(p) ==
    LET above == {s \in StartingPaths : IsPrefix(s, p)}
    IN IF above = {} THEN None
       ELSE CHOOSE d \in 0..Len(p) : \E s \in above :
                /\ d = Len(p) - Len(s)
                /\ \A s2 \in above : Len(s2) <= Len(s)

(***************************************************************************)
(* C10: with no level every starting path and all below it are selected;   *)
(* with level L nothing more than L levels below the starting paths is     *)
(* selected (level 0: the starting paths alone).                           *)
(***************************************************************************)
C10_LevelBoundsSelection ==
    (pc = "done" /\ ~options.empty /\ ~options.only_no_file_id)
        => /\ options.level = None =>
                Range(selected) = {p \in DOMAIN tree : \E s \in StartingPaths : IsPrefix(s, p)}
           /\ options.level # None =>
                \A p \in Range(selected) :
                    DepthBelowStart(p) # None /\ DepthBelowStart(p) <= options.level

\* C24: --empty selects empty directories only.  With --empty (and without
\* --only-no-file-id, which is tested first) every path the selection
\* yields is a directory without children, whatever the level: a number or
\* none.
C24_EmptySelectsEmptyDirs ==
    (pc = "done" /\ options.empty /\ ~options.only_no_file_id) =>
        \A p \in Range(selected) : is_dir(tree, p) /\ children(tree, p) = <<>>

(***************************************************************************)
(* ------------------------------ fetch ---------------------------------- *)
(* Main.fetch, cli.py 706-715, and Options.limit, cli.py 194-198.          *)
(* path.cache.fetch is modelled from the specification (4.3).              *)
(***************************************************************************)
\* the number of entries of the tree fetch runs on
MaxFetchNodes == 2

\* cached sizes, in MB
Sizes == {None, 1, 50}

\* the values of --limit
Limits == {0 - 1, 0, 10}

FetchIdle == pending = {} /\ transfers = {} /\ skipped = {} /\ flagged = {}

\* a file whose content is present; `same` tells whether the local content is
\* the content the cached record describes
FileEntry(id, size, same) ==
    [kind |-> "file", cache |-> Meta(id, 1, size, "remote-sum", 0),
     size |-> IF same THEN size ELSE 0,
     checksum |-> IF same THEN "remote-sum" ELSE "local-sum"]

\* a placeholder whose checksum is known from the remote
SizedLinkEntry(id, size) ==
    [kind |-> "link", cache |-> Meta(id, 1, size, "remote-sum", 0), size |-> None,
     checksum |-> NoneStr]

\* what an entry that is not a directory may be
Leaves(id) ==
    {SizedLinkEntry(id, sz) : sz \in Sizes}
        \cup {FileEntry(id, sz, same) : sz \in Sizes \ {None}, same \in BOOLEAN}

\* the trees with nodes 1..n, node i named i, each a directory or a leaf
FetchTrees(n) ==
    LET nm == [i \in 1..n |-> i]
    IN UNION {
         {t \in [{NodePath(par, nm, i) : i \in 0..n} ->
                    UNION {Leaves(i) \cup {DirEntry(i)} : i \in 0..n}] :
             /\ t[<<>>] = DirEntry(0)
             /\ \A i \in 1..n :
                   /\ t[NodePath(par, nm, i)].cache.id = i
                   /\ par[i] # 0 => t[NodePath(par, nm, par[i])].kind = "dir"} :
         par \in ParentFunctions(n)}

FetchStart ==
    /\ pc = "start"
    /\ tree \in FetchTrees(MaxFetchNodes)
    /\ tree0 = tree
    /\ paths = <<>>
    /\ options \in {[DefaultOptions EXCEPT !.limit = l, !.pretend = pr,
                                           !.overwrite = ow] :
                        l \in Limits, pr \in BOOLEAN, ow \in BOOLEAN}
    /\ selected = <<>>
    /\ FetchIdle
    /\ exit_status = None
    /\ printed = NoneStr

\* a limit that takes 0 for "no limit"
limit_of_positive(o) == IF o.limit > 0 THEN o.limit ELSE None

\* Options.limit, cli.py 194-198
limit_of(o) == IF o.limit >= 0 THEN o.limit ELSE None

\* the size test of cache.fetch: a known cached size above the limit
over_limit(size, size_limit_mb) ==
    size_limit_mb # None /\ size # None /\ size > size_limit_mb

\* the content of an existing file differs from what its cached record says
content_differs(e) ==
    e.kind = "file" /\ (e.checksum # e.cache.checksum \/ e.size # e.cache.size)

\* cache.fetch(size_limit_mb, overwrite) decides before any transfer:
\* "skip-size", "skip-exists", "nothing" (content already there) or "transfer"
fetch_decision(e, size_limit_mb, overwrite) ==
    IF over_limit(e.cache.size, size_limit_mb) THEN "skip-size"
    ELSE IF e.kind = "file" /\ content_differs(e) /\ ~overwrite THEN "skip-exists"
    ELSE IF e.kind = "file" /\ ~content_differs(e) THEN "nothing"
    ELSE "transfer"

\* the entry a transfer leaves: the whole content, or a part of it
transferred(e, complete) ==
    [e EXCEPT !.kind = "file",
              !.size = IF complete THEN e.cache.size ELSE 0,
              !.checksum = IF complete THEN e.cache.checksum ELSE "partial-sum"]

\* a fetch that asks for every path to be overwritten
overwrite_forced(o) == TRUE

\* the overwrite argument of cli.py 714: none is passed, whatever the
\* options say, so cache.fetch runs with its default, no overwrite
overwrite_passed(o) == FALSE

\* cli.py 707-710
FetchSelect ==
    /\ pc = "start"
    /\ selected' = not_dirs_of(tree, options, paths)
    /\ printed' = "paths"
    /\ IF pretend(options)
       THEN pc' = "done" /\ pending' = {}
       ELSE pc' = "fetching" /\ pending' = DOMAIN selected'
    /\ UNCHANGED <<options, exit_status, cloneVars, treeVars, transfers, skipped, flagged,
                   outsideFetch>>

\* cli.py 714-715: one deferred path.cache.fetch(size_limit_mb=self.options.limit)
\* of the rate limited batch; the batch runs them in any order
FetchPath ==
    /\ pc = "fetching"
    /\ \E i \in pending :
         LET p == selected[i]
             e == tree[p]
             decision == fetch_decision(e, limit_of(options), overwrite_passed(options))
         IN /\ pending' = pending \ {i}
            /\ IF decision = "transfer"
               THEN \E complete \in BOOLEAN :
                      /\ transfers' = transfers \cup {p}
                      /\ tree' = [tree EXCEPT ![p] = transferred(e, complete)]
                      /\ flagged' = IF content_differs(tree'[p])
                                    THEN flagged \cup {p} ELSE flagged
                      /\ UNCHANGED skipped
               ELSE /\ skipped' = IF decision = "nothing" THEN skipped
                                  ELSE skipped \cup {p}
                    /\ UNCHANGED <<tree, transfers, flagged>>
    /\ UNCHANGED <<pc, options, exit_status, printed, cloneVars, tree0, paths, selected,
                   outsideFetch>>

\* the batch is done when every deferred call has returned
FetchDone ==
    /\ pc = "fetching"
    /\ pending = {}
    /\ pc' = "done"
    /\ exit_status' = 0
    /\ UNCHANGED <<options, printed, cloneVars, treeVars, selectVars, fetchVars,
                   outsideFetch>>

NextFetch ==
    \/ FetchSelect
    \/ FetchPath
    \/ FetchDone

\* the cached size of p exceeds the --limit given, read as MB
ExceedsLimitGiven(p) ==
    /\ options.limit >= 0
    /\ tree0[p].cache.size # None
    /\ tree0[p].cache.size > options.limit

(***************************************************************************)
(* C6: a negative --limit is no limit, any other value (0 too) is the      *)
(* limit in MB; fetch starts no download for a selected path whose cached  *)
(* size exceeds the limit and leaves that path as it was, and downloads    *)
(* every other placeholder selected.                                       *)
(***************************************************************************)
C6_FetchEnforcesLimit ==
    /\ \A p \in Range(selected) :
          ExceedsLimitGiven(p) => (p \notin transfers /\ tree[p] = tree0[p])
    /\ (pc = "done" /\ ~options.pretend) =>
          \A p \in Range(selected) :
              (is_broken_symlink(tree0, p) /\ ~ExceedsLimitGiven(p)) => p \in transfers

C6_Witness ==
    /\ pc = "done"
    /\ options.limit = 10
    /\ \E p \in Range(selected) :
          /\ tree0[p].cache.size = 50
          /\ is_broken_symlink(tree, p)
          /\ p \in skipped
    /\ transfers # {}

\* the entry at p exists as a file whose content is not what the remote has
DiffersFromRemote(p) == is_file(tree0, p) /\ content_differs(tree0[p])

\* C15: fetch never replaces a path whose local entry exists with content
\* differing from the remote unless --overwrite was given; without it such
\* a path is skipped and reported, not passed to a download.
C15_FetchNeedsOverwrite ==
    \A p \in Range(selected) :
        (DiffersFromRemote(p) /\ ~options.overwrite) =>
            /\ p \notin transfers
            /\ tree[p] = tree0[p]
            /\ (pc = "done" /\ ~options.pretend) => p \in skipped

\* a fetch without --overwrite that is done and has skipped a file of
\* differing content that was within the size limit, having met a
\* placeholder it did transfer
C15_Witness ==
    /\ pc = "done"
    /\ ~options.overwrite
    /\ \E p \in Range(selected) :
          /\ DiffersFromRemote(p)
          /\ ~ExceedsLimitGiven(p)
          /\ p \in skipped
    /\ transfers # {}

(***************************************************************************)
(* ----------------------------- refresh --------------------------------- *)
(* Main.refresh, cli.py 630-704.  The remote (r.refresh, r.update_cache)   *)
(* and the cache (path.cache.refresh) are modelled from the specification  *)
(* (4.2, 7): an object's local place is the path of its remote parents'    *)
(* names, and a move is a rename to that path.  Objects keep their names:  *)
(* object i is named i, locally and remotely; the project is object 0.     *)
(***************************************************************************)
\* the number of remote objects below the project
MaxRefreshNodes == 3

\* the number of refresh commands run one after the other
MaxRuns == 2

\* no refresh is running or has run
RefreshAtRest ==
    /\ run = 0 /\ drs = <<>> /\ todo = {} /\ moved = <<>>
    /\ parent_moved = <<>> /\ logged = <<>> /\ applied = <<>>
    /\ renames_log = <<>> /\ log0 = <<>> /\ last = None
    /\ denied = {}

RefreshIdle == remote = None /\ RefreshAtRest

\* the record of a path without cached metadata (path.cache is None)
NoCache == Meta(None, None, None, NoneStr, None)

HasCache(t, p) == Exists(t, p) /\ t[p].cache.id # None

\* the local trees of a project whose objects 1..n were all pulled
RefreshTrees(n) ==
    {TreeOf(par, [i \in 1..n |-> i], kd, [i \in 1..n |-> None]) :
        <<par, kd>> \in {x \in ParentFunctions(n) \X [1..n -> {"dir", "link"}] :
                            \A i \in 1..n : x[1][i] # 0 => x[2][x[1][i]] = "dir"}}

\* the object cached at a path
IdAt(t, p) == t[p].cache.id

RECURSIVE RemotePathOf(_, _)
\* where the remote has object i: the names of its parents, then its own
RemotePathOf(rem, i) ==
    IF i = 0 THEN <<>> ELSE Append(RemotePathOf(rem, rem[i].parent), i)

RECURSIVE ReachesRoot(_, _, _)
\* following parents from i ends at the project within n steps
ReachesRoot(rem, i, n) ==
    IF i = 0 THEN TRUE
    ELSE IF n = 0 THEN FALSE
    ELSE ReachesRoot(rem, rem[i].parent, n - 1)

\* what the remote may report for the objects of a local tree: every object
\* below the project, in a folder, at a revision later than the cached one
Remotes(t, n) ==
    LET isdir(i) == \E p \in DOMAIN t : IdAt(t, p) = i /\ t[p].kind = "dir"
    IN {rem \in [0..n -> [parent : 0..n, updated : {1}]] :
            /\ rem[0].parent = 0
            /\ \A i \in 1..n : /\ rem[i].parent # i
                               /\ isdir(rem[i].parent)
                               /\ ReachesRoot(rem, i, n)}

\* rename(P, T): the entry at P and all below it, now at T
Relocate(t, P, T) ==
    LET going == {q \in DOMAIN t : IsPrefix(P, q)}
        staying == {q \in DOMAIN t : ~IsPrefix(P, q) /\ q # T}
        dest(q) == T \o SubSeq(q, Len(P) + 1, Len(q))
    IN [x \in staying \cup {dest(q) : q \in going} |->
          IF x \in staying THEN t[x] ELSE t[CHOOSE q \in going : dest(q) = x]]

\* the cached record rewritten from what the remote reports
Rewritten(e, rem, i) == [e EXCEPT !.cache.updated = rem[i].updated]

\* a directory made on the way to a new place: it has no cached record
PlainDir == [kind |-> "dir", cache |-> NoCache, size |-> None, checksum |-> NoneStr]

\* the tree with the directories above T that are missing
WithParents(t, T) ==
    [p \in DOMAIN t \cup parents(T) |-> IF Exists(t, p) THEN t[p] ELSE PlainDir]

\* update_cache / cache.refresh of the object i that was cached at path P:
\* the result, the tree it leaves and where the object then is.  A moved
\* object is renamed to its new place, below directories made as needed.
\*   FileNotFoundError  nothing is at P any more
\*   PermissionError    the filesystem refuses to rename the entry at P
\*   ENOTEMPTY          the place to move to is a directory with entries
update_cache(t, rem, P, i) ==
    LET T == RemotePathOf(rem, i)
        t1 == WithParents(t, T)
    IN IF ~Exists(t, P)
       THEN [result |-> "FileNotFoundError", tree |-> t, local |-> P]
       ELSE IF T = P
       THEN [result |-> "ok", tree |-> [t EXCEPT ![P] = Rewritten(t[P], rem, i)],
             local |-> P]
       ELSE IF P \in denied
       THEN [result |-> "PermissionError", tree |-> t, local |-> P]
       ELSE IF Exists(t1, T) /\ \E q \in DOMAIN t1 : IsStrictPrefix(T, q)
       THEN [result |-> "ENOTEMPTY", tree |-> t1, local |-> P]
       ELSE LET t2 == Relocate(t1, P, T)
            IN [result |-> "ok", tree |-> [t2 EXCEPT ![T] = Rewritten(t2[T], rem, i)],
                local |-> T]

\* the orders sorted(set(...), key=len(parts)) can give a set of paths: the
\* order among paths of one length is the set's
SortedByParts(S) ==
    {s \in [1..Cardinality(S) -> S] :
        /\ \A i, j \in DOMAIN s : i # j => s[i] # s[j]
        /\ \A i, j \in DOMAIN s : i < j => Len(s[i]) <= Len(s[j])}

\* cli.py 636-640: the cached directories above the paths given
to_root_set(t, ps) ==
    {parent \in UNION {parents(path) : path \in Range(ps)} : HasCache(t, parent)}

RefreshStart ==
    /\ pc = "refresh"
    /\ tree \in RefreshTrees(MaxRefreshNodes)
    /\ tree0 = tree
    /\ remote \in Remotes(tree, MaxRefreshNodes)
    /\ denied \in {{}} \cup {{p} : p \in DOMAIN tree \ {<<>>}}
    /\ paths \in PathArguments(tree, MaxPaths)
    /\ options \in {[DefaultOptions EXCEPT !.pretend = b, !.empty = e] :
                        b \in BOOLEAN, e \in BOOLEAN}
    /\ run = 1
    /\ drs = <<>> /\ todo = {} /\ moved = <<>> /\ parent_moved = <<>>
    /\ logged = <<>> /\ applied = <<>>
    /\ renames_log = <<>> /\ log0 = <<>>
    /\ last = [tree |-> tree, clean |-> FALSE, log |-> <<>>, moved |-> <<>>]
    /\ exit_status = None
    /\ printed = NoneStr

\* cli.py 631-662: the directories to refresh, those towards the root first;
\* --pretend prints them and returns.  `d.remote` of a directory without a
\* cached record raises AttributeError (its cache is None).
RefreshBegin ==
    /\ pc = "refresh"
    /\ log0' = renames_log
    /\ \E to_root \in SortedByParts(to_root_set(tree, paths)) :
         LET ds == to_root \o dirs_of(tree, options, paths)
         IN IF pretend(options)
            THEN /\ printed' = "paths"
                 /\ pc' = "done"
                 /\ drs' = <<>>
                 /\ exit_status' = exit_status
            ELSE IF \E k \in DOMAIN ds : ~HasCache(tree, ds[k])
            THEN /\ printed' = "AttributeError"
                 /\ pc' = "raised"
                 /\ drs' = <<>>
                 /\ exit_status' = UncaughtStatus
            ELSE /\ printed' = "paths"
                 /\ pc' = "dirs"
                 /\ drs' = [k \in DOMAIN ds |-> [local |-> ds[k], id |-> IdAt(tree, ds[k])]]
                 /\ exit_status' = exit_status
    /\ UNCHANGED <<options, treeVars, remote, denied, run, todo, moved,
                   parent_moved, logged, applied, renames_log, last, outsideRefresh>>

\* the loop body without the bookkeeping of cli.py 673-675: a directory that
\* is not found is passed over in silence
refresh_dir_unrecorded(st, r) ==
    LET res == update_cache(st.tree, remote, r.local, r.id)
    IN IF st.raised # NoneStr \/ res.result = "FileNotFoundError" THEN st
       ELSE IF res.result = "ENOTEMPTY"
       THEN [st EXCEPT !.logged = Append(@, r.local), !.tree = res.tree]
       ELSE IF res.result # "ok"
       THEN [st EXCEPT !.raised = res.result, !.tree = res.tree]
       ELSE [st EXCEPT !.tree = res.tree,
                       !.applied = Append(@, r.local),
                       !.moved = IF res.local # r.local
                                 THEN Append(@, <<r.local, res.local>>) ELSE @]

\* one pass of the loop over the refreshed directories, cli.py 666-685
refresh_dir(st, r) ==
    LET res == update_cache(st.tree, remote, r.local, r.id)
    IN IF st.raised # NoneStr THEN st
       ELSE IF res.result = "FileNotFoundError"
       THEN [st EXCEPT !.parent_moved = Append(@, r.local)]
       ELSE IF res.result = "ENOTEMPTY"
       THEN [st EXCEPT !.logged = Append(@, r.local), !.tree = res.tree]
       ELSE IF res.result # "ok"
       THEN [st EXCEPT !.raised = res.result, !.tree = res.tree]
       ELSE [st EXCEPT !.tree = res.tree,
                       !.applied = Append(@, r.local),
                       !.moved = IF res.local # r.local
                                 THEN Append(@, <<r.local, res.local>>) ELSE @]

RECURSIVE refresh_dirs(_, _)
\* the loop, in the order of the requests
refresh_dirs(st, rs) ==
    IF rs = <<>> THEN st ELSE refresh_dirs(refresh_dir(st, Head(rs)), Tail(rs))

\* cli.py 664-695: the results are applied one directory after the other;
\* then the files left to refresh are those now selected
RefreshDirs ==
    /\ pc = "dirs"
    /\ LET st == refresh_dirs([tree |-> tree, moved |-> <<>>, parent_moved |-> <<>>,
                               logged |-> <<>>, applied |-> <<>>, raised |-> NoneStr],
                              drs)
       IN /\ tree' = st.tree
          /\ moved' = st.moved
          /\ parent_moved' = st.parent_moved
          /\ logged' = st.logged
          /\ applied' = st.applied
          /\ IF st.raised # NoneStr
             THEN /\ pc' = "raised"
                  /\ printed' = st.raised
                  /\ exit_status' = UncaughtStatus
                  /\ todo' = {}
             ELSE /\ pc' = "files"
                  /\ printed' = IF st.parent_moved # <<>> THEN "Parent moved"
                                ELSE IF st.moved # <<>> THEN "Folders moved"
                                ELSE printed
                  /\ exit_status' = exit_status
                  /\ todo' = Range(not_dirs_of(st.tree, options, paths))
    /\ UNCHANGED <<options, tree0, paths, remote, denied, run, drs, renames_log, log0,
                   last,
                   outsideRefresh>>

\* cli.py 697-704: path.cache.refresh of one file; the files are refreshed
\* side by side, so in any order.  Nothing here catches what it raises.
RefreshFile ==
    /\ pc = "files"
    /\ \E path \in todo :
         /\ todo' = todo \ {path}
         /\ IF ~HasCache(tree, path)
            THEN /\ pc' = "raised"
                 /\ printed' = "AttributeError"
                 /\ exit_status' = UncaughtStatus
                 /\ tree' = tree
            ELSE LET res == update_cache(tree, remote, path, IdAt(tree, path))
                 IN IF res.result = "ok"
                    THEN /\ tree' = res.tree
                         /\ UNCHANGED <<pc, printed, exit_status>>
                    ELSE /\ pc' = "raised"
                         /\ printed' = res.result
                         /\ exit_status' = UncaughtStatus
                         /\ tree' = res.tree
    /\ UNCHANGED <<options, tree0, paths, remote, denied, run, drs, moved, parent_moved,
                   logged,
                   applied, renames_log, log0, last, outsideRefresh>>

\* the command returns
RefreshDone ==
    /\ pc = "files"
    /\ todo = {}
    /\ pc' = "done"
    /\ UNCHANGED <<options, exit_status, printed, treeVars, refreshVars, outsideRefresh>>

\* the same command line is run again, the remote being as it was
RefreshAgain ==
    /\ pc \in {"done", "raised"}
    /\ run > 0
    /\ run < MaxRuns
    /\ run' = run + 1
    /\ last' = [tree |-> tree,
                clean |-> pc = "done" /\ parent_moved = <<>> /\ logged = <<>>,
                log |-> renames_log,
                moved |-> moved]
    /\ pc' = "refresh"
    /\ drs' = <<>> /\ todo' = {} /\ moved' = <<>> /\ parent_moved' = <<>>
    /\ logged' = <<>> /\ applied' = <<>>
    /\ exit_status' = None
    /\ printed' = NoneStr
    /\ UNCHANGED <<options, treeVars, remote, denied, renames_log, log0, outsideRefresh>>

NextRefresh ==
    \/ RefreshBegin
    \/ RefreshDirs
    \/ RefreshFile
    \/ RefreshDone
    \/ RefreshAgain

\* C4: move detection.  When the remote reports a cached folder under another
\* parent, refresh relocates the local entry and renames.log gains exactly
\* one line `old -> new` for it: once the directories are refreshed, the log
\* is the log as it was, followed by one line per folder moved.
C4_MoveDetection ==
    pc \in {"files", "done"} =>
        /\ \A k \in DOMAIN moved :
             /\ ~Exists(tree, moved[k][1])
             /\ Exists(tree, moved[k][2])
        /\ renames_log = log0 \o moved

\* the second of two refresh commands in a row is running or has ended
SecondRun == run = 2 /\ pc # "refresh"

\* the second run has left everything as the first run left it
NothingChanged ==
    /\ moved = <<>>
    /\ parent_moved = <<>>
    /\ tree = last.tree
    /\ renames_log = last.log

\* C5: idempotence.  Running refresh twice in a row on an unchanged
\* remote tree: the second run moves nothing, defers nothing, changes no
\* cached record and leaves the rename log unchanged.
C5_Idempotence == SecondRun => NothingChanged

\* the directory requested at place j of the run has q requested before it
RequestedBefore(j, q) == \E i \in 1..(j - 1) : drs[i].local = q

\* every directory requested comes after each of the cached directories
\* above it, as the tree stood when the run began
AncestorsFirst ==
    \A j \in DOMAIN drs :
        \A q \in parents(drs[j].local) :
            HasCache(last.tree, q) => RequestedBefore(j, q)

\* the updates applied are applied in the order of the requests
AppliedInRequestOrder ==
    \A a, b \in DOMAIN applied :
        a < b => \E i, j \in DOMAIN drs :
                    /\ i < j
                    /\ drs[i].local = applied[a]
                    /\ drs[j].local = applied[b]

\* nothing is refreshed before the directories have all been gone through
FilesAfterDirs == pc \in {"refresh", "dirs"} => (tree = last.tree /\ todo = {})

\* C11: ordering within one refresh.  The directory updates are applied one
\* at a time in request order, the ancestors of the selected paths first by
\* increasing depth, then the selected directories parent before child, so
\* that no directory's move is applied before its parent's; and no path
\* that is not a directory is refreshed before every directory update of the
\* run has been applied.
C11_RefreshOrdering ==
    /\ AncestorsFirst
    /\ AppliedInRequestOrder
    /\ FilesAfterDirs

\* the loop over the directories of this run after its first k passes
LoopAfter(k) ==
    refresh_dirs([tree |-> last.tree, moved |-> <<>>, parent_moved |-> <<>>,
                  logged |-> <<>>, applied |-> <<>>, raised |-> NoneStr],
                 SubSeq(drs, 1, k))

\* what the cache update of the k-th directory met
OutcomeAt(k) ==
    update_cache(LoopAfter(k - 1).tree, remote, drs[k].local, drs[k].id).result

\* the loop came to its k-th directory
LoopReached(k) == LoopAfter(k - 1).raised = NoneStr

\* P is the old place of a directory recorded as moved
WasMoved(P) == \E m \in DOMAIN moved : moved[m][1] = P

\* the k-th directory was gone through: it is in one of the records of the
\* loop, or it is the one whose error ended the command
GoneThrough(k) ==
    \/ drs[k].local \in Range(applied) \cup Range(parent_moved) \cup Range(logged)
    \/ pc = "raised" /\ printed = OutcomeAt(k)

\* the loop over the directories came to its end and the files were begun
FilesBegun ==
    /\ LoopReached(Len(drs) + 1)
    /\ pc \in {"files", "done", "raised"}

\* after its k-th directory the command went on: with the next directory,
\* or after the last with the files
WentOn(k) == IF k < Len(drs) THEN GoneThrough(k + 1) ELSE FilesBegun

\* the directories of this run have been gone through
AfterDirs == drs # <<>> /\ pc \in {"files", "done", "raised"}

\* C12: refresh failure policy.  A directory whose cache update raises a
\* filesystem 'not found' is recorded as parent moved and not as moved; one
\* whose update raises 'directory not empty' is logged and recorded in
\* neither list; in both cases the command goes on with the remaining
\* directories and then the files.
C12_RefreshFailurePolicy ==
    AfterDirs =>
        \A k \in DOMAIN drs :
            LoopReached(k) =>
                /\ OutcomeAt(k) = "FileNotFoundError" =>
                      /\ drs[k].local \in Range(parent_moved)
                      /\ ~WasMoved(drs[k].local)
                      /\ WentOn(k)
                /\ OutcomeAt(k) = "ENOTEMPTY" =>
                      /\ drs[k].local \in Range(logged)
                      /\ drs[k].local \notin Range(parent_moved)
                      /\ ~WasMoved(drs[k].local)
                      /\ WentOn(k)

\* a refresh that met a directory not found, then a directory it went on
\* with, and came to its end
C12_Witness ==
    /\ pc = "done"
    /\ \E k \in DOMAIN drs :
          /\ k < Len(drs)
          /\ OutcomeAt(k) = "FileNotFoundError"
          /\ drs[k].local \in Range(parent_moved)
          /\ drs[k + 1].local \in Range(applied)

\* C13: only configuration errors abort a run.  During refresh an error that
\* affects one path (a filesystem error raised by its cache update) never
\* keeps the remaining selected directories and files from being processed:
\* once the requests are made every directory is gone through, and every
\* file too.
C13_OnlyConfigurationErrorsAbort ==
    AfterDirs =>
        /\ \A k \in DOMAIN drs : drs[k].local \in
              Range(applied) \cup Range(parent_moved) \cup Range(logged)
        /\ pc # "raised"

(***************************************************************************)
(* -------------------------- status and find ---------------------------- *)
(* Main.status, cli.py 1084-1107, and Main.find, cli.py 944-998, run one   *)
(* after the other in a project (Main.__init__ has left otherwise).  What  *)
(* a PathMeta compares (content_different) is modelled from the            *)
(* specification (3, 4.3): sizes, and checksums where both are known.      *)
(***************************************************************************)
\* the number of entries below the project
MaxFindNodes == 2

\* the number of --name patterns
MaxPatterns == 1

FindIdle == different = <<>> /\ found = <<>> /\ n_skipped = None /\ detected = {}

\* a file of the right size whose content is not what the record describes
CorruptEntry(id, size) == [FileEntry(id, size, TRUE) EXCEPT !.checksum = "local-sum"]

\* a file whose cached record has no checksum yet
UncheckedEntry(id, size, same) ==
    [FileEntry(id, size, same) EXCEPT !.cache.checksum = NoneStr]

\* a file that was never pulled: no cached record; skip_cache as the path has it
LocalFile(skip) ==
    [kind |-> "file", cache |-> NoCache, size |-> 1, checksum |-> "local-sum",
     skip_cache |-> skip]

\* what an entry that is not a directory may be
FindLeaves(id) ==
    {SizedLinkEntry(id, sz) : sz \in Sizes}
        \cup {FileEntry(id, 1, TRUE), FileEntry(id, 1, FALSE), FileEntry(id, 50, FALSE)}
        \cup {CorruptEntry(id, 1)}
        \cup {UncheckedEntry(id, 1, same) : same \in BOOLEAN}
        \cup {LocalFile(skip) : skip \in BOOLEAN}

\* the trees with nodes 1..n, node i named i, each a directory or a leaf
FindTrees(n) ==
    LET nm == [i \in 1..n |-> i]
    IN UNION {
         {t \in [{NodePath(par, nm, i) : i \in 0..n} ->
                    UNION {FindLeaves(i) \cup {DirEntry(i)} : i \in 0..n}] :
             /\ t[<<>>] = DirEntry(0)
             /\ \A i \in 1..n :
                   /\ t[NodePath(par, nm, i)] \in FindLeaves(i) \cup {DirEntry(i)}
                   /\ par[i] # 0 => t[NodePath(par, nm, par[i])].kind = "dir"} :
         par \in ParentFunctions(n)}

\* a --name pattern is the set of names it matches
PatternLists(n) == UNION {[1..k -> SUBSET (1..n)] : k \in 1..MaxPatterns}

\* the path of the entry named i
PathNamed(t, i) == CHOOSE p \in DOMAIN t : p # <<>> /\ p[Len(p)] = i

\* the remote of a project in which nothing has moved
RemoteHere(t, n) ==
    [i \in 0..n |-> [parent |-> IF i # 0 /\ Len(PathNamed(t, i)) > 1
                                THEN PathNamed(t, i)[Len(PathNamed(t, i)) - 1]
                                ELSE 0,
                     updated |-> 1]]

FindStart ==
    /\ pc = "status"
    /\ tree \in FindTrees(MaxFindNodes)
    /\ tree0 = tree
    /\ paths = <<>>
    /\ options \in {[DefaultOptions EXCEPT !.limit = l, !.pretend = pr, !.exists = x,
                                           !.fetch = f, !.refresh = r, !.name = nm] :
                        l \in Limits, pr \in BOOLEAN, x \in BOOLEAN, f \in BOOLEAN,
                        r \in BOOLEAN, nm \in PatternLists(MaxFindNodes)}
    /\ remote = RemoteHere(tree, MaxFindNodes)
    /\ different = <<>> /\ found = <<>> /\ n_skipped = None /\ detected = {}
    /\ pending = {} /\ transfers = {} /\ skipped = {} /\ flagged = {}
    /\ selected = <<>>
    /\ exit_status = None
    /\ printed = NoneStr

\* f.meta and f.meta_no_checksum of an existing file
meta(e) == [size |-> e.size, checksum |-> e.checksum]

meta_no_checksum(e) == [size |-> e.size, checksum |-> NoneStr]

\* lmeta.content_different(cmeta): another size, or another checksum where
\* both sides have one
content_different(lmeta, cmeta) ==
    \/ lmeta.size # cmeta.size
    \/ /\ lmeta.checksum # NoneStr
       /\ cmeta.checksum # NoneStr
       /\ lmeta.checksum # cmeta.checksum

\* cli.py 1099: the checksum is computed when the record has one
lmeta_of(e, cmeta) == IF cmeta.checksum # NoneStr THEN meta(e) ELSE meta_no_checksum(e)

\* one pass of the loop of status, cli.py 1092-1107.  A file without record
\* that is not skipped is compared with the record of the file before it;
\* there is none before the first file.
status_file(t, st, f) ==
    LET e == t[f]
        bound == HasCache(t, f) \/ st.cmeta # NoCache
        cmeta == IF HasCache(t, f) THEN e.cache ELSE st.cmeta
    IN IF st.raised # NoneStr THEN st
       ELSE IF ~HasCache(t, f) /\ e.skip_cache THEN st
       ELSE IF ~bound THEN [st EXCEPT !.raised = "UnboundLocalError"]
       ELSE [st EXCEPT !.cmeta = cmeta,
                       !.different = IF content_different(lmeta_of(e, cmeta), cmeta)
                                     THEN Append(@, f) ELSE @]

RECURSIVE status_files(_, _, _)
status_files(t, st, fs) ==
    IF fs = <<>> THEN st ELSE status_files(t, status_file(t, st, Head(fs)), Tail(fs))

\* cli.py 1090
existing_files(t) == SelectSeq(rchildren(t, <<>>), LAMBDA f : is_file(t, f))

outsideFind == <<cloneVars, selectVars, denied, run, drs, todo, moved, parent_moved, logged,
                 applied, renames_log, log0, last, dupVars, stashVars, pullVars>>

\* spc status (and the mismatches fix reads): the files that differ
Status ==
    /\ pc = "status"
    /\ LET st == status_files(tree, [cmeta |-> NoCache, different |-> <<>>,
                                     raised |-> NoneStr], existing_files(tree))
       IN /\ different' = st.different
          /\ IF st.raised # NoneStr
             THEN /\ printed' = st.raised
                  /\ exit_status' = UncaughtStatus
             ELSE /\ printed' = IF st.different # <<>> THEN "diff" ELSE printed
                  /\ exit_status' = exit_status
    /\ pc' = "find"
    /\ UNCHANGED <<options, treeVars, fetchVars, remote, found, n_skipped, detected,
                   outsideFind>>

\* path.rglob(pattern) from the current directory
rglob(t, pattern) ==
    SelectSeq(rchildren(t, <<>>), LAMBDA file : file[Len(file)] \in pattern)

RECURSIVE find_matches(_, _)
\* cli.py 946-956: the matches of each pattern, one pattern after the other
find_matches(t, patterns) ==
    IF patterns = <<>> THEN <<>>
    ELSE rglob(t, Head(patterns)) \o find_matches(t, Tail(patterns))

\* p.exists(): not so for the placeholder, a symlink that leads nowhere
exists(t, p) == Exists(t, p) /\ t[p].kind # "link"

\* cli.py 964-970: the test a path passes to stay selected; sizes in MB
find_keeps(t, o, p) ==
    LET size == t[p].cache.size
    IN \/ size = None
       \/ o.exists
       \/ ~exists(t, p) /\ size < limit_of(o)
       \/ exists(t, p) /\ t[p].size # size /\ size < limit_of(o)

\* cli.py 967-969: the test reaches log.info('Truncated transfer detected')
find_logs_truncated(t, o, p) ==
    LET size == t[p].cache.size
    IN size # None /\ ~o.exists /\ exists(t, p) /\ t[p].size # size

\* cli.py 961: `if self.options.limit:` is false for no limit and for 0
find_filters(o) == limit_of(o) # None /\ limit_of(o) # 0

\* cli.py 944-998 up to the batch.  n_skipped is bound only by the filter;
\* printing it unbound raises NameError, and a path without cached record
\* raises AttributeError where its record is read.
Find ==
    /\ pc = "find"
    /\ LET matched == SelectSeq(find_matches(tree, options.name),
                                LAMBDA p : ~is_dir(tree, p))
           untracked(ps) == \E k \in DOMAIN ps : ~HasCache(tree, ps[k])
           kept == IF find_filters(options) /\ ~untracked(matched)
                   THEN SelectSeq(matched, LAMBDA p : find_keeps(tree, options, p))
                   ELSE matched
           raise(what) == /\ pc' = "raised"
                          /\ printed' = what
                          /\ exit_status' = UncaughtStatus
                          /\ pending' = {}
       IN /\ found' = kept
          /\ IF find_filters(options) /\ ~untracked(matched)
             THEN /\ n_skipped' = Cardinality({p \in Range(matched) :
                                        is_broken_symlink(tree, p)} \ Range(kept))
                  /\ detected' = {p \in Range(matched) :
                                        find_logs_truncated(tree, options, p)}
             ELSE /\ n_skipped' = None
                  /\ detected' = {}
          /\ IF matched = <<>>
             THEN /\ pc' = "done"
                  /\ pending' = {}
                  /\ exit_status' = None
                  /\ printed' = NoneStr
             ELSE IF find_filters(options) /\ untracked(matched)
             THEN raise("AttributeError")
             ELSE IF pretend(options) \/ ~(options.fetch \/ options.refresh)
             THEN IF untracked(kept) THEN raise("AttributeError")
                  ELSE IF n_skipped' = None THEN raise("NameError")
                  ELSE /\ pc' = "done"
                       /\ pending' = {}
                       /\ exit_status' = None
                       /\ printed' = "paths"
             ELSE /\ pc' = "batch"
                  /\ pending' = DOMAIN kept
                  /\ exit_status' = None
                  /\ printed' = NoneStr
    /\ UNCHANGED <<options, treeVars, selected, transfers, skipped, flagged, remote,
                   different, outsideFind>>

\* cli.py 982-993: one unit of the rate limited batch, path.remote.refresh
\* (update_cache=True, update_data=fetch, size_limit_mb=limit) with --refresh,
\* else path.cache.fetch(size_limit_mb=limit); the units run in any order
FindBatch ==
    /\ pc = "batch"
    /\ \E i \in pending :
         LET p == found[i]
             e0 == tree[p]
             e == IF options.refresh THEN Rewritten(e0, remote, IdAt(tree, p)) ELSE e0
             decision == IF options.fetch
                         THEN fetch_decision(e, limit_of(options), FALSE)
                         ELSE "nothing"
         IN /\ pending' = pending \ {i}
            /\ IF ~HasCache(tree, p)
               THEN /\ pc' = "raised"
                    /\ printed' = "AttributeError"
                    /\ exit_status' = UncaughtStatus
                    /\ UNCHANGED <<tree, transfers, skipped, flagged>>
               ELSE /\ UNCHANGED <<pc, printed, exit_status>>
                    /\ IF decision = "transfer"
                       THEN \E complete \in BOOLEAN :
                              /\ transfers' = transfers \cup {p}
                              /\ tree' = [tree EXCEPT ![p] = transferred(e, complete)]
                              /\ flagged' = IF content_differs(tree'[p])
                                            THEN flagged \cup {p} ELSE flagged
                              /\ UNCHANGED skipped
                       ELSE /\ skipped' = IF decision = "nothing" THEN skipped
                                          ELSE skipped \cup {p}
                            /\ tree' = [tree EXCEPT ![p] = e]
                            /\ UNCHANGED <<transfers, flagged>>
    /\ UNCHANGED <<options, tree0, paths, selected, remote, findVars, outsideFind>>

\* the batch is through
FindDone ==
    /\ pc = "batch"
    /\ pending = {}
    /\ pc' = "done"
    /\ UNCHANGED <<options, exit_status, printed, treeVars, fetchVars, remote, findVars,
                   outsideFind>>

NextFind ==
    \/ Status
    \/ Find
    \/ FindBatch
    \/ FindDone

\* an existing file whose content is not the content its record describes:
\* the record has a checksum and the file's checksum is another
Mismatched(t, p) ==
    /\ is_file(t, p)
    /\ HasCache(t, p)
    /\ t[p].cache.checksum # NoneStr
    /\ t[p].checksum # t[p].cache.checksum

\* C7: truncated transfer detection.  Every existing file whose computed
\* checksum differs from the checksum of its cached record is in the result
\* of status, and find, where the file matches, keeps it selected.
C7_TruncatedTransferDetection ==
    \A p \in DOMAIN tree0 :
        Mismatched(tree0, p) =>
            /\ (pc \in {"find", "batch", "done"} /\ exit_status # UncaughtStatus)
                  => p \in Range(different)
            /\ (pc \in {"batch", "done"} /\ p \in Range(find_matches(tree0, options.name)))
                  => p \in Range(found)

\* the paths find matched that are not directories
FindMatched == {p \in Range(find_matches(tree0, options.name)) : ~is_dir(tree0, p)}

\* find has made its selection
FindSelected == pc \in {"batch", "done"}

\* C25: find enforces the size limit.  For every limit of 0 or more and
\* without --exists, the paths find selects hold no path that was not
\* fetched yet and whose cached size is known and at or above the limit; a
\* matching path whose cached size is unknown is always selected.
C25_FindEnforcesLimit ==
    (FindSelected /\ limit_of(options) # None /\ ~options.exists) =>
        /\ \A p \in Range(found) :
               (HasCache(tree0, p) /\ ~exists(tree0, p) /\ tree0[p].cache.size # None)
                  => tree0[p].cache.size < limit_of(options)
        /\ \A p \in FindMatched :
               (HasCache(tree0, p) /\ tree0[p].cache.size = None) => p \in Range(found)

\* find only lists: --pretend, or neither --fetch nor --refresh
FindLists == options.pretend \/ ~(options.fetch \/ options.refresh)

\* C29: find reports for every limit.  When at least one path that is not
\* a directory matches, a find that only lists (--pretend, or neither
\* --fetch nor --refresh) ends normally, having printed the selected paths
\* and the skipped count, whether the limit is positive, zero or negative.
C29_FindReportsForEveryLimit ==
    (pc \in {"done", "raised"} /\ FindMatched # {} /\ FindLists) =>
        /\ pc = "done"
        /\ printed = "paths"
        /\ n_skipped # None

\* C23: --pretend only lists.  With --pretend, refresh, fetch and find ask
\* the remote for nothing (no refresh of a directory or a file, no download)
\* and change neither the local tree, nor a cached record, nor the rename
\* log.
C23_PretendOnlyLists ==
    options.pretend =>
        /\ tree = tree0
        /\ renames_log = <<>>
        /\ drs = <<>> /\ applied = <<>> /\ todo = {}
        /\ pending = {} /\ transfers = {}
        /\ pc \notin {"dirs", "files", "fetching", "batch"}

\* a refresh --pretend has listed its paths and returned while the remote
\* holds a cached entry at another place
C23_Witness ==
    /\ options.pretend
    /\ run = 1 /\ pc = "done" /\ printed = "paths"
    /\ \E P \in DOMAIN tree :
          HasCache(tree, P) /\ RemotePathOf(remote, IdAt(tree, P)) # P

(***************************************************************************)
(* --------------------------- fix duplicates ---------------------------- *)
(* Fix.duplicates, cli.py 1642-1673.  a.dedupe(b, pretend=True) is         *)
(* modelled from the specification (4.4): of two paths of one remote id it *)
(* names the one updated later, and in pretend mode it removes nothing.    *)
(***************************************************************************)
\* the number of paths below the anchor
MaxDupPaths == 3

\* the number of remote ids the paths may carry
MaxDupIds == 2

\* the updated timestamps of a cached record, None for none
Timestamps == {None, 100, 200}

DupIdle == dupes = <<>> /\ deduped = <<>> /\ to_remove = <<>>

\* a path with a cached record of remote id `id`
DupEntry(id, updated, size) ==
    [kind |-> "link", cache |-> Meta(id, 1, size, NoneStr, updated), size |-> None,
     checksum |-> NoneStr]

\* the paths 1..n side by side below the anchor, some sharing a remote id,
\* some without cached record
DupTrees(n) ==
    {t \in [{<<>>} \cup {<<i>> : i \in 1..n} ->
              {DirEntry(0)} \cup {LocalFile(skip) : skip \in BOOLEAN}
                  \cup {DupEntry(id, u, sz) : id \in 1..MaxDupIds, u \in Timestamps,
                                             sz \in {None, 1}}] :
        /\ t[<<>>] = DirEntry(0)
        /\ \A i \in 1..n : t[<<i>>] # DirEntry(0)}

DupStart ==
    /\ pc = "duplicates"
    /\ tree \in DupTrees(MaxDupPaths)
    /\ tree0 = tree
    /\ paths \in PathArguments(tree, MaxPaths)
    /\ options = DefaultOptions
    /\ dupes = <<>> /\ deduped = <<>> /\ to_remove = <<>>
    /\ exit_status = None
    /\ printed = NoneStr

\* cli.py 1644-1647: the paths looked at
dup_paths(t, ps) == IF ps = <<>> THEN rchildren(t, <<>>) ELSE ps

\* cli.py 1649-1656: all_[rc.cache.id], the paths with a cached record by id,
\* each list in the order the paths were met
all_of(t, ps, id) ==
    SelectSeq(ps, LAMBDA rc : HasCache(t, rc) /\ IdAt(t, rc) = id)

\* the ids in the order they were first met (the order of the dict)
RECURSIVE ids_met(_, _)
ids_met(t, ps) ==
    IF ps = <<>> THEN <<>>
    ELSE LET rest == ids_met(t, SubSeq(ps, 1, Len(ps) - 1))
             rc == ps[Len(ps)]
         IN IF HasCache(t, rc) /\ IdAt(t, rc) \notin Range(rest)
            THEN Append(rest, IdAt(t, rc)) ELSE rest

\* cli.py 1658-1662: mkey(p) can be built only when the record has an updated
\* timestamp: -mns.updated.timestamp() is evaluated for every path
mkey_raises(t, p) == t[p].cache.updated = None

\* the key of a path whose record has a timestamp (the first two components
\* are then False, False)
mkey(t, p) == 0 - t[p].cache.updated

RECURSIVE sorted_by_mkey(_, _)
\* sorted(l, key=mkey): increasing keys, equal keys in the order of l
sorted_by_mkey(t, l) ==
    IF l = <<>> THEN <<>>
    ELSE LET rest == sorted_by_mkey(t, SubSeq(l, 1, Len(l) - 1))
             x == l[Len(l)]
             before == SelectSeq(rest, LAMBDA y : mkey(t, y) <= mkey(t, x))
             after == SelectSeq(rest, LAMBDA y : mkey(t, y) > mkey(t, x))
         IN before \o <<x>> \o after

\* a.dedupe(b, pretend=True): the path to keep of the two
dedupe(t, a, b) == IF t[b].cache.updated > t[a].cache.updated THEN b ELSE a

RECURSIVE flatten(_)
flatten(ss) == IF ss = <<>> THEN <<>> ELSE Head(ss) \o flatten(Tail(ss))

outsideDup == <<cloneVars, selectVars, fetchVars, refreshVars, findVars, stashVars, pullVars>>

\* line 1672 as it reads without its comment sign: the paths to remove whose
\* cached size is unknown are unlinked
unlinked_sizeless(t, rm) == {p \in Range(rm) : t[p].cache.size = None}

\* cli.py 1670-1672: the paths fix duplicates unlinks.  to_remove_size is
\* built and left unused, the unlink is commented out: none
unlinked(t, rm) == {}

\* the tree without the paths of S
Without(t, S) == [p \in DOMAIN t \ S |-> t[p]]

\* cli.py 1642-1673, up to the breakpoint
Duplicates ==
    /\ pc = "duplicates"
    /\ LET ps == dup_paths(tree, paths)
           ids == SelectSeq(ids_met(tree, ps), LAMBDA i : Len(all_of(tree, ps, i)) > 1)
           grouped == UNION {Range(all_of(tree, ps, ids[k])) : k \in DOMAIN ids}
       IN IF \E p \in grouped : mkey_raises(tree, p)
          THEN /\ pc' = "raised"
               /\ printed' = "AttributeError"
               /\ exit_status' = UncaughtStatus
               /\ UNCHANGED <<tree, dupVars>>
          ELSE LET dv == [k \in DOMAIN ids |-> sorted_by_mkey(tree, all_of(tree, ps, ids[k]))]
                   news == [k \in DOMAIN dv |-> dedupe(tree, dv[k][1], dv[k][2])]
               IN /\ dupes' = [i \in Range(ids) |->
                                  sorted_by_mkey(tree, all_of(tree, ps, i))]
                  /\ deduped' = news
                  /\ to_remove' = flatten([k \in DOMAIN dv |->
                                     SelectSeq(dv[k], LAMBDA d : d # news[k])])
                  /\ tree' = Without(tree, unlinked(tree, to_remove'))
                  /\ pc' = "breakpoint"
                  /\ UNCHANGED <<exit_status, printed>>
    /\ UNCHANGED <<options, tree0, paths, outsideDup>>

\* cli.py 1673: the debugger is left
DuplicatesContinue ==
    /\ pc = "breakpoint"
    /\ pc' = "done"
    /\ UNCHANGED <<options, exit_status, printed, treeVars, dupVars, outsideDup>>

NextDup ==
    \/ Duplicates
    \/ DuplicatesContinue

\* the paths looked at that carry remote id i
SharingId(i) ==
    {p \in Range(dup_paths(tree0, paths)) : HasCache(tree0, p) /\ IdAt(tree0, p) = i}

\* list l holds the paths with a timestamp by decreasing timestamp, and after
\* them the paths without
RankedLatestFirst(l) ==
    \A j, k \in DOMAIN l :
        j < k => \/ tree0[l[k]].cache.updated = None
                 \/ /\ tree0[l[j]].cache.updated # None
                    /\ tree0[l[j]].cache.updated >= tree0[l[k]].cache.updated

\* C8: dedupe ranking.  Once fix duplicates has run, every group of paths
\* sharing one remote id is listed with the paths that have a timestamp first,
\* latest first, and the paths without one last; the path named to keep is
\* the first of the list.
C8_DedupeRanking ==
    pc # "duplicates" =>
        \A i \in 1..MaxDupIds :
            Cardinality(SharingId(i)) > 1 =>
                /\ i \in DOMAIN dupes
                /\ Range(dupes[i]) = SharingId(i)
                /\ RankedLatestFirst(dupes[i])
                /\ \E k \in DOMAIN deduped : deduped[k] = dupes[i][1]

\* the paths named to keep among those that carry remote id i
KeptOf(i) == {k \in DOMAIN deduped : deduped[k] \in SharingId(i)}

\* C16: for every group of two or more paths that share one remote id
\* (three or more included) fix duplicates names exactly one path to keep,
\* a member of the group, and reports every other member in to_remove.
C16_OneCanonicalPerGroup ==
    pc # "duplicates" =>
        \A i \in 1..MaxDupIds :
            Cardinality(SharingId(i)) > 1 =>
                /\ Cardinality(KeptOf(i)) = 1
                /\ \A k \in KeptOf(i) :
                      /\ deduped[k] \notin Range(to_remove)
                      /\ SharingId(i) \ {deduped[k]} \subseteq Range(to_remove)

\* C17: the duplicate resolver never deletes.  After fix duplicates has run
\* on any set of paths, the local paths and their cached records are what
\* they were, whether the cached size of a path to remove is known or not.
C17_ResolverNeverDeletes == tree = tree0

\* fix duplicates has run and reports a path of unknown size and a path of
\* known size as removable
C17_Witness ==
    /\ pc = "done"
    /\ \E p, q \in Range(to_remove) :
          /\ tree0[p].cache.size = None
          /\ tree0[q].cache.size # None

(***************************************************************************)
(* ------------------------------- stash --------------------------------- *)
(* Main.stash, cli.py 1124-1179.  The project is anchored at /<anchor_name>*)
(* and the stash base is /stash; a stash path is listed here from the      *)
(* timestamp directory on: <<stamp, anchor_name>> \o the relative path.    *)
(* Names are numbers written in decimal: a path string is its names'       *)
(* digits joined by Slash, and "." for the empty relative path.  mkdir,    *)
(* copy_from, copy_to and cache_init are modelled from the specification   *)
(* (4.5) and as the filesystem has them.                                   *)
(***************************************************************************)
\* the number of entries below the anchor
MaxStashNodes == 3

\* the number of paths on the command line
MaxStashPaths == 2

\* the number of stash commands
MaxStashes == 2

\* the name of the anchor directory
AnchorName == 1

\* the name 'stash' of cli.py 1128, a name of one character here
StashDirName == 5

\* the stash base, anchor.local.parent / 'stash', is the project directory
\* itself: the project is named 'stash'.  What lies below the stash base is
\* then what lies below the anchor.
SameDir == anchor_name = StashDirName

\* the names below the anchor: of one and of two characters
StashNames == {1, 10}

\* "/" and "." in a path string: both sort before every digit, "." first
Slash == 0 - 1

Dot == 0 - 2

StashIdle ==
    /\ stash = <<>> /\ n_stashes = 0 /\ stashed = <<>> /\ at_stash = None
    /\ anchor_name = AnchorName /\ restored = <<>>

\* the characters of a name
NameStr(n) == IF n < 10 THEN <<n>> ELSE <<n \div 10, n % 10>>

RECURSIVE as_posix(_)
\* the string of a relative path
as_posix(p) ==
    IF p = <<>> THEN <<Dot>>
    ELSE IF Len(p) = 1 THEN NameStr(p[1])
    ELSE as_posix(SubSeq(p, 1, Len(p) - 1)) \o <<Slash>> \o NameStr(p[Len(p)])

\* the timestamp directory of the k-th stash; later stamps sort later, and no
\* stamp is a name of the project
Stamp(k) == 100 + k

\* a project file and its cached record; file i has content of its own
StashFile(i) ==
    [kind |-> "file", cache |-> Meta(i, 1, 1, "sum-" \o ToString(i), 0), size |-> 1,
     checksum |-> "sum-" \o ToString(i)]

\* the project trees with nodes 1..n, each a directory or a file
StashTrees(n) ==
    {[p \in {NodePath(x[1], x[2], i) : i \in 0..n} |->
         IF p = <<>> THEN DirEntry(0)
         ELSE LET i == CHOOSE j \in 1..n : NodePath(x[1], x[2], j) = p
              IN IF x[3][i] = "dir" THEN DirEntry(i) ELSE StashFile(i)] :
        x \in {y \in ParentFunctions(n) \X [1..n -> StashNames] \X [1..n -> {"dir", "file"}] :
                 /\ NamesDistinct(y[1], y[2])
                 /\ \A i \in 1..n : y[1][i] # 0 => y[3][y[1][i]] = "dir"}}

\* the command lines: up to n different paths under the anchor
StashArguments(t, n) ==
    {SortPaths(S) : S \in {X \in SUBSET (DOMAIN t) : Cardinality(X) <= n}}

StashStart ==
    /\ pc = "shell"
    /\ tree \in StashTrees(MaxStashNodes)
    /\ tree0 = tree
    /\ paths \in StashArguments(tree, MaxStashPaths)
    /\ options = DefaultOptions
    /\ anchor_name \in {AnchorName, StashDirName}
    /\ stash = (IF SameDir THEN tree ELSE <<>>)
    /\ n_stashes = 0 /\ stashed = <<>> /\ restored = <<>>
    /\ at_stash = tree
    /\ exit_status = None
    /\ printed = NoneStr

\* cli.py 1129-1131: the members of the set: each path given, absolute, and
\* the parents of its relative path, relative
to_stash_set(ps) ==
    {[absolute |-> TRUE, rel |-> p] : p \in Range(ps)}
        \cup {[absolute |-> FALSE, rel |-> parent] :
                 parent \in UNION {parents(p) : p \in Range(ps)}}

\* len(p.as_posix()): an absolute path is the anchor's string, "/<AnchorName>",
\* and below the anchor a slash and the relative string
posix_len(x) ==
    IF ~x.absolute THEN Len(as_posix(x.rel))
    ELSE 1 + Len(NameStr(anchor_name))
           + (IF x.rel = <<>> THEN 0 ELSE 1 + Len(as_posix(x.rel)))

\* the orders sorted(set(...), key=len(as_posix)) can give: members of one
\* length come in the order of the set
to_stash_orders(ps) ==
    LET S == to_stash_set(ps)
    IN {s \in [1..Cardinality(S) -> S] :
          /\ \A i, j \in DOMAIN s : i # j => s[i] # s[j]
          /\ \A i, j \in DOMAIN s : i < j => posix_len(s[i]) <= posix_len(s[j])}

\* the stash with one more entry
WithEntry(st, key, e) ==
    [k \in DOMAIN st \cup {key} |-> IF k = key THEN e ELSE st[k]]

\* the directory above a stash path
Above(key) == SubSeq(key, 1, Len(key) - 1)

\* a stashed directory: its cached record, no content
StashedDir(cache) == [kind |-> "dir", cache |-> cache, size |-> None, checksum |-> NoneStr]

\* a copy that came out different from its source e; it has no record yet
FaultyCopy(e) == [e EXCEPT !.checksum = "partial-sum", !.cache = NoCache]

\* the loop with the comparison of cli.py 1171 taken for a warning: the
\* copy is given its record and the loop goes on
stash_path_unverified(t, st, x, stamp, faulty) ==
    LET p == x.rel
        new_path == <<stamp, anchor_name>> \o p
        raise(what, store) == [st EXCEPT !.raised = what, !.stash = store]
    IN IF st.raised # NoneStr THEN st
       ELSE IF is_dir(t, p)
       THEN IF new_path \in DOMAIN st.stash THEN raise("FileExistsError", st.stash)
            ELSE IF Above(new_path) \notin DOMAIN st.stash
            THEN raise("FileNotFoundError", st.stash)
            ELSE [st EXCEPT !.stash = WithEntry(@, new_path, StashedDir(t[p].cache)),
                            !.made = Append(@, new_path)]
       ELSE IF Above(new_path) \notin DOMAIN st.stash
       THEN raise("FileNotFoundError", st.stash)
       ELSE [st EXCEPT !.stash = WithEntry(@, new_path,
                                           IF p = faulty
                                           THEN [FaultyCopy(t[p]) EXCEPT !.cache = t[p].cache]
                                           ELSE t[p]),
                       !.made = Append(@, new_path)]

\* one pass of the loop of cli.py 1152-1176 for the member x of to_stash;
\* `faulty` is the file whose copy comes out different from its source.  The
\* copy is made before it is compared, so it is among the entries made.
stash_path(t, st, x, stamp, faulty) ==
    LET p == x.rel
        new_path == <<stamp, anchor_name>> \o p
        raise(what, store) == [st EXCEPT !.raised = what, !.stash = store]
    IN IF st.raised # NoneStr THEN st
       ELSE IF is_dir(t, p)
       THEN IF new_path \in DOMAIN st.stash THEN raise("FileExistsError", st.stash)
            ELSE IF Above(new_path) \notin DOMAIN st.stash
            THEN raise("FileNotFoundError", st.stash)
            ELSE [st EXCEPT !.stash = WithEntry(@, new_path, StashedDir(t[p].cache)),
                            !.made = Append(@, new_path)]
       ELSE IF Above(new_path) \notin DOMAIN st.stash
       THEN raise("FileNotFoundError", st.stash)
       ELSE IF p = faulty
       THEN [st EXCEPT !.raised = "AssertionError",
                       !.stash = WithEntry(@, new_path, FaultyCopy(t[p])),
                       !.made = Append(@, new_path)]
       ELSE [st EXCEPT !.stash = WithEntry(@, new_path, t[p]),
                       !.made = Append(@, new_path)]

RECURSIVE stash_paths(_, _, _, _, _)
stash_paths(t, st, xs, stamp, faulty) ==
    IF xs = <<>> THEN st
    ELSE stash_paths(t, stash_path(t, st, Head(xs), stamp, faulty), Tail(xs), stamp, faulty)

outsideStash == <<cloneVars, selectVars, fetchVars, refreshVars, findVars, dupVars, pullVars>>

\* spc stash: cli.py 1124-1131 and 1146-1179
Stash ==
    /\ pc = "shell"
    /\ n_stashes < MaxStashes
    /\ \E order \in to_stash_orders(paths), faulty \in {<<0>>} \cup Range(paths) :
         LET stamp == Stamp(n_stashes + 1)
             new_anchor == <<stamp, anchor_name>>
             st0 == [stash |-> WithEntry(WithEntry(stash, <<stamp>>, StashedDir(NoCache)),
                                         new_anchor, StashedDir(tree[<<>>].cache)),
                     made |-> <<new_anchor>>,
                     raised |-> NoneStr]
             st == stash_paths(tree, st0, IF order = <<>> THEN <<>> ELSE Tail(order),
                               stamp, faulty)
         IN /\ (faulty # <<0>> => is_file(tree, faulty))
            /\ stash' = st.stash
            /\ stashed' = st.made
            /\ IF st.raised # NoneStr
               THEN /\ pc' = "raised"
                    /\ printed' = st.raised
                    /\ exit_status' = UncaughtStatus
               ELSE /\ pc' = "shell"
                    /\ printed' = NoneStr
                    /\ exit_status' = None
    /\ n_stashes' = n_stashes + 1
    /\ at_stash' = tree
    /\ tree' = (IF SameDir THEN stash' ELSE tree)
    /\ UNCHANGED <<options, tree0, paths, anchor_name, restored, outsideStash>>

\* between the commands the operator changes a path: new content for a file,
\* a later record for any path.  (In a project named 'stash' only the stash
\* commands are followed.)
Edit ==
    /\ pc = "shell"
    /\ ~SameDir
    /\ n_stashes > 0
    /\ \E p \in DOMAIN tree :
         /\ tree[p].cache.updated = 0
         /\ tree' = [tree EXCEPT ![p].cache.updated = 1,
                                 ![p].checksum = IF tree[p].kind = "file"
                                                 THEN "edited" ELSE @]
    /\ UNCHANGED <<pc, options, exit_status, printed, tree0, paths, stashVars, outsideStash>>

\* the string of a stash path, from the timestamp directory on
stash_posix(key) == <<key[1], Slash>> \o as_posix(Tail(key))

\* cli.py 1137: p.parts[-len(relpath.parts):] == relpath.parts.  The parts
\* above the timestamp ("/", "stash") are no names of the project, and for
\* an empty relpath the slice is all of p.parts: no match
ends_with(key, relpath) ==
    /\ relpath # <<>>
    /\ Len(relpath) <= Len(key)
    /\ SubSeq(key, Len(key) - Len(relpath) + 1, Len(key)) = relpath

\* cli.py 1134-1140: the first entry of rcs, the stashed files by decreasing
\* path string, that ends with the relative path; {} when there is none
restore_source(st, relpath) ==
    LET rcs == {key \in DOMAIN st : st[key].kind # "dir"}
        matching == {key \in rcs : ends_with(key, relpath)}
    IN {key \in matching :
          \A other \in matching \ {key} : PathLess(stash_posix(other), stash_posix(key))}

\* one pass of the loop over the paths, cli.py 1135-1140: copy_to(path,
\* force=True, copy_cache_meta=True) puts content and record of the source
\* at the path; it cannot replace a directory
restore_path(st, t, path) ==
    LET source == restore_source(st, path)
    IN IF t.raised # NoneStr \/ source = {} THEN t
       ELSE IF is_dir(t.tree, path) THEN [t EXCEPT !.raised = "IsADirectoryError"]
       ELSE LET p == CHOOSE key \in source : TRUE
            IN [t EXCEPT !.tree = [@ EXCEPT ![path] = st[p]],
                         !.copied = Append(@, <<path, p>>)]

RECURSIVE restore_paths(_, _, _)
restore_paths(st, t, ps) ==
    IF ps = <<>> THEN t ELSE restore_paths(st, restore_path(st, t, Head(ps)), Tail(ps))

\* spc stash --restore: cli.py 1124-1144, up to the breakpoint
Restore ==
    /\ pc = "shell"
    /\ ~SameDir
    /\ n_stashes > 0
    /\ LET t == restore_paths(stash, [tree |-> tree, raised |-> NoneStr, copied |-> <<>>],
                              paths)
       IN /\ tree' = t.tree
          /\ restored' = t.copied
          /\ IF t.raised # NoneStr
             THEN /\ pc' = "raised"
                  /\ printed' = t.raised
                  /\ exit_status' = UncaughtStatus
             ELSE /\ pc' = "breakpoint"
                  /\ UNCHANGED <<printed, exit_status>>
    /\ UNCHANGED <<options, tree0, paths, stash, n_stashes, stashed, at_stash, anchor_name,
                   outsideStash>>

\* cli.py 1144: the debugger is left
RestoreContinue ==
    /\ pc = "breakpoint"
    /\ pc' = "done"
    /\ UNCHANGED <<options, exit_status, printed, treeVars, stashVars, outsideStash>>

NextStash ==
    \/ Stash
    \/ Edit
    \/ Restore
    \/ RestoreContinue

\* C9: stash round trip.  After the paths were stashed and then restored,
\* whatever was changed in between, every path given has the content and the
\* cached record it had when it was stashed.
C9_StashRoundTrip ==
    pc \in {"breakpoint", "done"} =>
        \A p \in Range(paths) : tree[p] = at_stash[p]

\* the anchor directory of the last stash made
LastAnchor == <<Stamp(n_stashes), anchor_name>>

\* the last stash command ended on a copy that did not match its source
CopyMismatch == pc = "raised" /\ printed = "AssertionError"

\* the paths given and the directories above them, the anchor included
PathsAndAncestors == UNION {{p} \cup parents(p) : p \in Range(paths)}

\* the entries of the last stash were made parents first
ParentsFirst ==
    \A i, j \in DOMAIN stashed : IsStrictPrefix(stashed[i], stashed[j]) => i < j

\* C18: stash structure.  Stashing the paths P makes, under
\* <stash>/<timestamp>/<anchor name>, an entry at the same relative path for
\* every p in P and every directory above p up to the anchor, each with a
\* copy of the cached record its source had at stash time, every directory
\* entry made before any entry beneath it.
C18_StashStructure ==
    (n_stashes > 0 /\ ~CopyMismatch) =>
        /\ \A q \in PathsAndAncestors :
              /\ LastAnchor \o q \in DOMAIN stash
              /\ stash[LastAnchor \o q].cache = at_stash[q].cache
        /\ ParentsFirst

\* the relative path a stash entry stands for
RelOf(key) == SubSeq(key, 3, Len(key))

\* the files of the last stash whose content is not that of their source
MismatchedCopies ==
    {key \in DOMAIN stash :
        /\ Len(key) > 2
        /\ key[1] = Stamp(n_stashes)
        /\ stash[key].kind = "file"
        /\ stash[key].checksum # at_stash[RelOf(key)].checksum}

\* C19: stash copy verification is a hard failure.  If the checksum of a
\* stashed copy differs from that of its source, the stash command ends with
\* an error at that file, no record is written for the copy, and no later
\* path is stashed.
C19_StashCopyVerified ==
    \A key \in MismatchedCopies :
        /\ CopyMismatch
        /\ stash[key].cache = NoCache
        /\ stashed # <<>> /\ stashed[Len(stashed)] = key

\* a stash ended on a mismatching copy and left a path given unstashed
C19_Witness ==
    /\ CopyMismatch
    /\ MismatchedCopies # {}
    /\ \E p \in Range(paths) : LastAnchor \o p \notin DOMAIN stash

\* the stash base is neither the project directory nor inside it; both lie
\* in one directory, the project as <anchor_name>, the base as 'stash'
StashOutOfTree == ~IsPrefix(<<anchor_name>>, <<StashDirName>>)

\* a stash command leaves the project tree and what the stash base held as
\* they were, and what it adds is under a timestamp directory that is new
StashAppendsOnly ==
    n_stashes' = n_stashes + 1 =>
        /\ tree' = tree
        /\ <<Stamp(n_stashes')>> \notin DOMAIN stash
        /\ \A key \in DOMAIN stash : key \in DOMAIN stash' /\ stash'[key] = stash[key]
        /\ \A key \in DOMAIN stash' \ DOMAIN stash : key[1] = Stamp(n_stashes')

\* every other step, restore among them, writes nothing under the stash base
RestoreReadsOnly == n_stashes' = n_stashes => stash' = stash

\* C20: stashes are out of tree and append only.  The stash base is never
\* the anchor's tree or inside it; making a stash writes only under a new
\* timestamp directory and changes neither the project tree nor an earlier
\* stash; restore reads from the stash and writes nothing under its base.
C20_StashOutOfTreeAppendOnly ==
    /\ []StashOutOfTree
    /\ [][StashAppendsOnly /\ RestoreReadsOnly]_vars

\* the entry of the k-th stash for the relative path p
EntryOf(k, p) == <<Stamp(k), anchor_name>> \o p

\* the stashes that hold a copy of the file at the relative path p (restore
\* lists files only, cli.py 1134)
StashesWith(p) ==
    {k \in 1..n_stashes :
        EntryOf(k, p) \in DOMAIN stash /\ stash[EntryOf(k, p)].kind # "dir"}

\* the entry for p of the most recent stash that holds one
NewestEntry(p) ==
    EntryOf(CHOOSE k \in StashesWith(p) : \A j \in StashesWith(p) : j <= k, p)

\* the copies the last restore made onto the path p
RestoredOnto(p) == {i \in DOMAIN restored : restored[i][1] = p}

\* a restore has gone through its paths
RestoreRan == pc \in {"breakpoint", "done"}

\* after a restore every path given received at most one copy: none when no
\* stash holds its relative path, and else the newest entry for it, content
\* and cached record
RestoredFromNewest ==
    RestoreRan =>
        \A p \in Range(paths) :
            /\ Cardinality(RestoredOnto(p)) <= 1
            /\ IF StashesWith(p) = {} THEN RestoredOnto(p) = {}
               ELSE /\ \E i \in RestoredOnto(p) : restored[i][2] = NewestEntry(p)
                    /\ tree[p] = stash[NewestEntry(p)]

\* a restore leaves a path given that no stash holds as it was
UnstashedUntouched ==
    (pc = "shell" /\ pc' = "breakpoint") =>
        \A p \in Range(paths) : StashesWith(p) = {} => tree'[p] = tree[p]

\* C21: restore is newest-first.  For each path given, stash --restore
\* copies from at most one stash entry: the entry for that relative path in
\* the most recent stash that holds it, whose content and cached record
\* replace what is at the path; a path no stash holds is left unchanged.
C21_RestoreNewestFirst ==
    /\ []RestoredFromNewest
    /\ [][UnstashedUntouched]_vars

\* C27: stash makes each entry once.  No stash entry is made twice, and a
\* stash of paths under the anchor does not end on an entry that already
\* exists or whose directory is missing, whatever the set of paths: a
\* directory together with a path below it included.
C27_StashEachEntryOnce ==
    /\ \A i, j \in DOMAIN stashed : i # j => stashed[i] # stashed[j]
    /\ ~(pc = "raised" /\ printed \in {"FileExistsError", "FileNotFoundError"})

\* C28: restore matches the whole relative path.  Every copy a restore made
\* onto a path given came from a stash entry whose path below the stashed
\* anchor is the path's own relative path, never from an entry of another
\* directory that only ends with the same parts.
C28_RestoreExactRelativePath ==
    \A i \in DOMAIN restored : RelOf(restored[i][2]) = restored[i][1]

(***************************************************************************)
(* ------------------------------- pull ---------------------------------- *)
(* Main.pull, cli.py 523-613.  The remote store, cache.refresh and         *)
(* remote.bootstrap are modelled from the specification (4.1, 4.2): a      *)
(* refresh of a removed object returns None and changes nothing, any other *)
(* refresh is the cache update of the refresh command, and bootstrap makes *)
(* a placeholder with its record for every remote object below the        *)
(* directory.  Object i is named i; the project (the organization) is      *)
(* object 0.  The fixed `skip` and `only` lists of dataset ids name no     *)
(* object of the model.                                                    *)
(***************************************************************************)
\* the number of remote objects below the project
MaxPullNodes == 3

\* the number of <directory> arguments
MaxDirectories == 2

\* `caches` before its first assignment
Unbound == [bound |-> FALSE, list |-> <<>>]

Bound(cs) == [bound |-> TRUE, list |-> cs]

PullIdle ==
    /\ directories = <<>> /\ existing_d = <<>> /\ n_pulled = 0 /\ gone = <<>>
    /\ bootstrapped = <<>> /\ caches = Unbound /\ maybe_removed = {}

\* a local directory that was never pulled; skip_cache as the path has it
UntrackedDir(skip) ==
    [kind |-> "dir", cache |-> NoCache, size |-> None, checksum |-> NoneStr,
     skip_cache |-> skip]

\* cd.skip_cache
skip_cache(t, p) == "skip_cache" \in DOMAIN t[p] /\ t[p].skip_cache

\* the local trees of a project with objects 1..n, 1 and 2 of them folders:
\* all of them pulled, or all but one, which is missing with what is below
\* it or is a local directory without a record
PullTreesOf(par, kd) ==
    LET n == Cardinality(DOMAIN par)
        base == TreeOf(par, [i \in 1..n |-> i], kd, [i \in 1..n |-> None])
        without(p) == [q \in {q \in DOMAIN base : ~IsPrefix(p, q)} |-> base[q]]
    IN {base}
       \cup {without(p) : p \in DOMAIN base \ {<<>>}}
       \cup {[base EXCEPT ![p] = UntrackedDir(skip)] :
                p \in {q \in DOMAIN base \ {<<>>} : base[q].kind = "dir"},
                skip \in BOOLEAN}

\* the shapes of a project: where each object is and what it is
PullShapes(n) ==
    {x \in ParentFunctions(n) \X [1..n -> {"dir", "link"}] :
        /\ \A i \in 1..n : x[1][i] # 0 => x[2][x[1][i]] = "dir"
        /\ \A i \in 1..n : i < n => x[2][i] = "dir"}

\* what the remote reports for a project of that shape: every object where
\* it was pulled, but for at most one that moved to another folder and at
\* most one that was removed
PullRemotesOf(par, kd) ==
    LET n == Cardinality(DOMAIN par)
        rem0 == [i \in 0..n |->
                   [parent |-> IF i = 0 THEN 0 ELSE par[i], updated |-> 1,
                    removed |-> FALSE, kind |-> IF i = 0 THEN "dir" ELSE kd[i]]]
        moves == {rem0} \cup
                 {[rem0 EXCEPT ![i].parent = j] :
                     <<i, j>> \in {y \in (1..n) \X (0..n) :
                                     /\ y[2] # y[1]
                                     /\ y[2] # par[y[1]]
                                     /\ rem0[y[2]].kind = "dir"
                                     /\ ReachesRoot([rem0 EXCEPT ![y[1]].parent = y[2]],
                                                    y[1], n)}}
    IN moves \cup {[m EXCEPT ![k].removed = TRUE] : m \in moves, k \in 0..n}

RECURSIVE Removed(_, _)
\* the remote no longer has object i: it was removed, or a folder above it
Removed(rem, i) ==
    \/ rem[i].removed
    \/ i # 0 /\ Removed(rem, rem[i].parent)

PullStart ==
    /\ pc = "pull"
    /\ \E x \in PullShapes(MaxPullNodes) :
          /\ tree \in PullTreesOf(x[1], x[2])
          /\ remote \in PullRemotesOf(x[1], x[2])
    /\ tree0 = tree
    /\ paths = <<>>
    /\ directories \in PathArguments(tree, MaxDirectories)
    /\ options \in {[DefaultOptions EXCEPT !.empty = e, !.level = l] :
                        e \in BOOLEAN, l \in {None, 0}}
    /\ existing_d = <<>> /\ n_pulled = 0 /\ gone = <<>>
    /\ bootstrapped = <<>> /\ caches = Unbound /\ maybe_removed = {}
    /\ exit_status = None
    /\ printed = NoneStr

\* d.name: the project directory carries the name of the anchor
name_of(p) == IF p = <<>> THEN AnchorName ELSE p[Len(p)]

RECURSIVE sorted_by_name(_)
\* sorted(dirs, key=lambda d: d.name): equal names keep their order
sorted_by_name(ds) ==
    IF ds = <<>> THEN <<>>
    ELSE LET k == CHOOSE k \in DOMAIN ds :
                     /\ \A j \in DOMAIN ds : name_of(ds[k]) <= name_of(ds[j])
                     /\ \A j \in 1..(k - 1) : name_of(ds[j]) > name_of(ds[k])
             rest == [j \in 1..(Len(ds) - 1) |-> IF j < k THEN ds[j] ELSE ds[j + 1]]
         IN <<ds[k]>> \o sorted_by_name(rest)

\* cli.py 541-543: the ids with a cached record below the directories
existing_of(t, dirs) ==
    LET existing_locals ==
            {rc \in UNION {Range(rchildren(t, dirs[k])) : k \in DOMAIN dirs} :
                HasCache(t, rc)}
    IN [id \in {IdAt(t, c) : c \in existing_locals} |->
          CHOOSE c \in existing_locals : IdAt(t, c) = id]

\* cli.py 527-545: the directories in the order of their names, and what
\* is known locally below them
PullBegin ==
    /\ pc = "pull"
    /\ LET dirs == sorted_by_name(IF directories = <<>> THEN <<<<>>>> ELSE directories)
       IN /\ directories' = dirs
          /\ existing_d' = existing_of(tree, dirs)
    /\ pc' = "dirs"
    /\ UNCHANGED <<options, exit_status, printed, treeVars, n_pulled, gone, bootstrapped,
                   caches, maybe_removed, cloneVars, selectVars, fetchVars, refreshVars,
                   findVars, dupVars, stashVars>>

\* c.refresh(): None (here "removed") when the remote no longer has the
\* object, else the cache update, which moves the entry where the remote
\* has it
cache_refresh(t, rem, P) ==
    IF Removed(rem, IdAt(t, P))
    THEN [result |-> "removed", tree |-> t, local |-> P]
    ELSE update_cache(t, rem, P, IdAt(t, P))

\* one pass of the loop over the children of an organization, cli.py 567-578
refresh_child(st, cd) ==
    IF st.raised # NoneStr \/ ~is_dir(st.tree, cd) THEN st
    ELSE IF ~HasCache(st.tree, cd)
    THEN IF skip_cache(st.tree, cd) THEN st
         ELSE [st EXCEPT !.raised = "AttributeError"]
    ELSE LET res == cache_refresh(st.tree, remote, cd)
         IN IF res.result = "removed"
            THEN [st EXCEPT !.raised = "AttributeError"]
            ELSE IF res.result # "ok"
            THEN [st EXCEPT !.raised = res.result, !.tree = res.tree]
            ELSE [st EXCEPT !.tree = res.tree,
                            !.log = IF res.local # cd
                                    THEN Append(@, <<cd, res.local, IdAt(st.tree, cd)>>)
                                    ELSE @]

RECURSIVE refresh_children(_, _)
refresh_children(st, cds) ==
    IF cds = <<>> THEN st
    ELSE refresh_children(refresh_child(st, Head(cds)), Tail(cds))

\* the record bootstrap attaches to a placeholder it makes for object j
Placeholder(rem, j) ==
    IF rem[j].kind = "dir"
    THEN [DirEntry(j) EXCEPT !.cache.updated = rem[j].updated]
    ELSE [LinkEntry(j, None, None) EXCEPT !.cache.updated = rem[j].updated]

\* remote.bootstrap of the folder i: the objects the remote has below it
\* (its own entries only, unless recursive) are given a local entry with
\* their record; the caches of these come back, parents first
bootstrap(t, rem, i, recursive) ==
    LET below == {j \in DOMAIN rem \ {0} :
                    /\ ~Removed(rem, j)
                    /\ IF recursive
                       THEN IsStrictPrefix(RemotePathOf(rem, i), RemotePathOf(rem, j))
                       ELSE rem[j].parent = i}
        at(T) == CHOOSE j \in below : RemotePathOf(rem, j) = T
        places == {RemotePathOf(rem, j) : j \in below}
        order == SortPaths(places)
    IN [tree |-> [p \in DOMAIN t \cup places |->
                     IF p \notin places THEN t[p]
                     ELSE IF HasCache(t, p) THEN Rewritten(t[p], rem, at(p))
                     ELSE Placeholder(rem, at(p))],
        caches |-> [k \in DOMAIN order |-> [id |-> at(order[k]), local |-> order[k]]]]

\* the command ends with an exception nothing catches
PullRaise(what) ==
    /\ pc' = "raised"
    /\ printed' = what
    /\ exit_status' = UncaughtStatus

\* one pass of the loop over the directories, cli.py 546-582
PullDir ==
    /\ pc = "dirs"
    /\ n_pulled < Len(directories)
    /\ n_pulled' = n_pulled + 1
    /\ LET d == directories[n_pulled + 1]
           res == cache_refresh(tree, remote, d)
           id == IdAt(tree, d)
           kids == refresh_children([tree |-> res.tree, log |-> renames_log,
                                     raised |-> NoneStr],
                                    IF id = 0 THEN children(res.tree, d) ELSE <<>>)
           boot == bootstrap(kids.tree, remote, id, options.level = None)
       IN IF options.empty /\ children(tree, d) # <<>>
          THEN UNCHANGED <<pc, printed, exit_status, tree, gone, bootstrapped, caches,
                           renames_log>>
          ELSE IF ~is_dir(tree, d)
          THEN /\ PullRaise("TypeError")
               /\ UNCHANGED <<tree, gone, bootstrapped, caches, renames_log>>
          ELSE IF ~HasCache(tree, d)
          THEN /\ PullRaise("AttributeError")
               /\ UNCHANGED <<tree, gone, bootstrapped, caches, renames_log>>
          ELSE IF res.result = "removed"
          THEN /\ gone' = Append(gone, d)
               /\ UNCHANGED <<pc, printed, exit_status, tree, bootstrapped, caches,
                              renames_log>>
          ELSE IF res.result # "ok"
          THEN /\ PullRaise(res.result)
               /\ tree' = res.tree
               /\ UNCHANGED <<gone, bootstrapped, caches, renames_log>>
          ELSE IF kids.raised # NoneStr
          THEN /\ PullRaise(kids.raised)
               /\ tree' = kids.tree
               /\ renames_log' = kids.log
               /\ UNCHANGED <<gone, bootstrapped, caches>>
          ELSE /\ tree' = boot.tree
               /\ renames_log' = kids.log
               /\ caches' = Bound(boot.caches)
               /\ bootstrapped' = Append(bootstrapped, res.local)
               /\ UNCHANGED <<pc, printed, exit_status, gone>>
    /\ UNCHANGED <<options, tree0, paths, directories, existing_d, maybe_removed,
                   remote, denied, run, drs, todo, moved, parent_moved, logged, applied,
                   log0, last, cloneVars, selectVars, fetchVars, findVars, dupVars,
                   stashVars>>

\* l.cache.refresh() of one path that may have been removed, cli.py 611-613
refresh_removed(st, l) ==
    IF st.raised # NoneStr \/ ~HasCache(st.tree, l) THEN st
    ELSE LET res == cache_refresh(st.tree, remote, l)
         IN IF res.result \in {"removed", "ok"}
            THEN [st EXCEPT !.tree = res.tree]
            ELSE [st EXCEPT !.raised = res.result, !.tree = res.tree]

RECURSIVE refresh_all_removed(_, _)
refresh_all_removed(st, ls) ==
    IF ls = <<>> THEN st
    ELSE refresh_all_removed(refresh_removed(st, Head(ls)), Tail(ls))

\* the orders a set of paths may be gone through in
Orders(S) ==
    {o \in [1..Cardinality(S) -> S] : \A i, j \in DOMAIN o : i # j => o[i] # o[j]}

\* cli.py 584-613: what was known and is not among `caches` is refreshed as
\* possibly removed.  `caches` is what the last bootstrap of the loop gave;
\* no two paths of the model share a stem, so the pairing of removed with
\* new paths by stem (cli.py 591-609) pairs nothing.
PullDiff ==
    /\ pc = "dirs"
    /\ n_pulled = Len(directories)
    /\ IF ~caches.bound
       THEN /\ PullRaise("UnboundLocalError")
            /\ UNCHANGED <<tree, maybe_removed>>
       ELSE LET new_ids == {caches.list[k].id : k \in DOMAIN caches.list}
                maybe_removed_ids == DOMAIN existing_d \ new_ids
                removed == {existing_d[id] : id \in maybe_removed_ids}
            IN /\ maybe_removed' = removed
               /\ \E o \in Orders(removed) :
                     LET st == refresh_all_removed([tree |-> tree, raised |-> NoneStr], o)
                     IN /\ tree' = st.tree
                        /\ IF st.raised # NoneStr
                           THEN PullRaise(st.raised)
                           ELSE /\ pc' = "done"
                                /\ UNCHANGED <<printed, exit_status>>
    /\ UNCHANGED <<options, tree0, paths, directories, existing_d, n_pulled, gone,
                   bootstrapped, caches, cloneVars, selectVars, fetchVars, refreshVars,
                   findVars, dupVars, stashVars>>

NextPull ==
    \/ PullBegin
    \/ PullDir
    \/ PullDiff

\* C14: the removed sentinel in pull.  When the refresh of a selected
\* directory returns None (removed), pull does not bootstrap that directory,
\* goes on with the remaining directories and completes normally, also when
\* the removed directory is the only one or the last one selected: once the
\* loop is through, the run does not end for want of a bootstrap.
C14_RemovedSentinelInPull ==
    gone # <<>> =>
        /\ Range(gone) \cap Range(bootstrapped) = {}
        /\ Len(gone) <= n_pulled
        /\ (n_pulled = Len(directories) /\ pc # "dirs") =>
              ~(pc = "raised" /\ printed = "UnboundLocalError")

\* the ids the bootstrap of the pulled directory d returned
ReturnedBy(d) ==
    LET boot == bootstrap(tree, remote, IdAt(tree, d), options.level = None)
    IN {boot.caches[k].id : k \in DOMAIN boot.caches}

\* C26: the removal diff of a pull over several directories.  An id that
\* was known locally and that the bootstrap of any of the pulled directories
\* returned is not among those taken for possibly removed, so its path is
\* not refreshed as such.
C26_RemovalDiffOverAllDirectories ==
    \A k \in DOMAIN bootstrapped :
        \A id \in ReturnedBy(bootstrapped[k]) \cap DOMAIN existing_d :
            existing_d[id] \notin maybe_removed

\* the loop over the children of the organization ended the pull: the
\* project directory itself has a record, so the exception is not its own
ChildLoopAborted ==
    /\ pc = "raised" /\ printed = "AttributeError"
    /\ n_pulled > 0 /\ directories[n_pulled] = <<>>

\* C30: the rename log of an organization pull.  Every line of the log is
\* for a child dataset directory whose refresh gave a cache at another
\* place; a child dataset the remote has removed, or one without a cached
\* record, gives no line and does not end the pull.
C30_OrganizationPullRenameLog ==
    /\ \A k \in DOMAIN renames_log :
          LET old == renames_log[k][1]
              new == renames_log[k][2]
              id == renames_log[k][3]
          IN /\ Len(old) = 1 /\ is_dir(tree0, old) /\ IdAt(tree0, old) = id
             /\ new # old
             /\ new = RemotePathOf(remote, id)
    /\ ~ChildLoopAborted

\* two paths of one subtree: one is above the other, or both lie in one
\* directory
SameSubtree(p, q) ==
    \/ IsPrefix(p, q) \/ IsPrefix(q, p)
    \/ (p # <<>> /\ q # <<>> /\ Above(p) = Above(q))

\* C22: no two local mutations of one subtree are in flight together.  The
\* rate limited batch of cache refreshes that refresh runs for the files
\* holds no two paths of which one is above the other or which lie in one
\* directory (and likewise the batch pull runs for what may be removed).
C22_NoConcurrentMutationInSubtree ==
    \A p, q \in todo : p # q => ~SameSubtree(p, q)

(***************************************************************************)
(* ------------------------- specifications ------------------------------ *)
(***************************************************************************)
InitClone == CloneStart /\ TreeIdle /\ SelectIdle /\ FetchIdle /\ RefreshIdle /\ FindIdle /\ DupIdle
               /\ StashIdle /\ PullIdle

SpecClone == InitClone /\ [][NextClone]_vars

InitSelect == SelectStart /\ CloneIdle /\ FetchIdle /\ RefreshIdle /\ FindIdle /\ DupIdle
               /\ StashIdle /\ PullIdle

SpecSelect == InitSelect /\ [][NextSelect]_vars

InitFetch == FetchStart /\ CloneIdle /\ RefreshIdle /\ FindIdle /\ DupIdle
               /\ StashIdle /\ PullIdle

SpecFetch == InitFetch /\ [][NextFetch]_vars

InitRefresh == RefreshStart /\ CloneIdle /\ SelectIdle /\ FetchIdle /\ FindIdle /\ DupIdle
               /\ StashIdle /\ PullIdle

SpecRefresh == InitRefresh /\ [][NextRefresh]_vars

InitFind == FindStart /\ CloneIdle /\ RefreshAtRest /\ DupIdle
               /\ StashIdle /\ PullIdle

SpecFind == InitFind /\ [][NextFind]_vars

InitDup == DupStart /\ CloneIdle /\ SelectIdle /\ FetchIdle /\ RefreshIdle /\ FindIdle
               /\ StashIdle /\ PullIdle

SpecDup == InitDup /\ [][NextDup]_vars

\* the commands that take --pretend: one of refresh, fetch and find
InitListing == InitRefresh \/ InitFetch \/ InitFind

NextListing == NextRefresh \/ NextFetch \/ NextFind

SpecListing == InitListing /\ [][NextListing]_vars

InitStash == StashStart /\ CloneIdle /\ SelectIdle /\ FetchIdle /\ RefreshIdle /\ FindIdle
               /\ DupIdle /\ PullIdle

SpecStash == InitStash /\ [][NextStash]_vars

InitPull == PullStart /\ CloneIdle /\ SelectIdle /\ FetchIdle /\ RefreshAtRest /\ FindIdle
               /\ DupIdle /\ StashIdle

SpecPull == InitPull /\ [][NextPull]_vars

=============================================================================
